---- MODULE Spec2Model ----
(***************************************************************************)
(* Apple Health export ingestion: the streaming extractors                 *)
(* (ingest/apple_health_*.py), the SQLite store (storage/sqlite_store.py)  *)
(* and the import orchestrator (ingest/importer.py).                       *)
(*                                                                         *)
(* Conventions.  An XML attribute value is a string; attrib.get(k) is an   *)
(* optional, written <<>> for None and <<v>> for a value v.  A float is    *)
(* held in tenths (42.0 is 420).  A datetime is [h, mi, off]: local hour   *)
(* and minute on 2020-01-01 with second 00, and the UTC offset in minutes. *)
(* SHA-256 is taken as injective: a hash is the digested payload string.   *)
(***************************************************************************)
EXTENDS Integers, Sequences, FiniteSets, TLC

VARIABLES
    doc,        \* the export document: sequence of the root's child elements
    xkind,      \* which extractor is iterating: "Record", "Workout", "ActivitySummary"
    xpos,       \* number of end events the extractor has consumed
    xstatus,    \* "running", "stopped" (StopIteration) or "raised" (ValueError)
    yielded,    \* the items the extractor has yielded, in order
    xlast,      \* what the extractor did with the last end event
    db,         \* the committed database, as any connection reads it
    txn,        \* the writer connection's view inside its open transaction
    call,       \* the upsert call in progress on the writer connection
    ret,        \* what the last finished upsert call returned
    seen,       \* what the reader connection's last query saw
    ncalls,     \* number of upsert calls made
    pc,         \* where import_export_xml_to_sqlite_all is; "idle" when not running
    pos,        \* end events consumed by the current pass's extractor
    sizes,      \* the run's record_batch_size and workout_batch_size
    loc,        \* the run's local variables: batches and counters
    runs,       \* number of import runs started
    hist,       \* one entry per finished run: how it ended and the store then
    fname,      \* the function last applied on its own; "none" before any
    fargs,      \* the arguments it was applied to
    fresult     \* what it returned

xvars == <<doc, xkind, xpos, xstatus, yielded, xlast>>

svars == <<db, txn, call, ret, seen, ncalls>>

ivars == <<pc, pos, sizes, loc, runs, hist>>

fvars == <<fname, fargs, fresult>>

vars == <<xvars, svars, ivars, fvars>>

\* No function has been applied on its own.
NoApplication ==
    /\ fname = "none"
    /\ fargs = <<>>
    /\ fresult = <<>>

----------------------------------------------------------------------------
(* Bounds *)

MaxDocLen == 3

MaxBatchLen == 2

MaxCalls == 2

MaxRuns == 2

MaxInterrupts == 1

MaxBatchSize == 2

\* The activity summary batch (365 in importer.py), scaled to the documents
\* of the model.
ActivityBatchSize == 2

\* The cadence of the progress calls (500 records, 50 workouts in
\* importer.py), scaled to the documents of the model.
RecordsProgressEvery == 2

WorkoutsProgressEvery == 2

----------------------------------------------------------------------------
(* Optionals and text rendering *)

None == <<>>

Some(v) == <<v>>

Get(attrib, k) == IF k \in DOMAIN attrib THEN Some(attrib[k]) ELSE None

\* Python truthiness of an optional string: None and "" are falsy.
Truthy(opt) == opt # None /\ opt[1] # ""

Pad2(n) == IF n < 10 THEN "0" \o ToString(n) ELSE ToString(n)

OffsetText(off, sep) ==
    (IF off < 0 THEN "-" ELSE "+")
        \o Pad2((IF off < 0 THEN -off ELSE off) \div 60) \o sep
        \o Pad2((IF off < 0 THEN -off ELSE off) % 60)

\* Timezone-aware datetimes of one day: hour, minute and UTC offset in minutes.
Datetimes == [h : {0, 9, 10, 23}, mi : {0, 5}, off : {-570, 0, 60}]

\* Datetimes without tzinfo.
NaiveDatetimes == [h : {0, 9, 10, 23}, mi : {0, 5}]

\* The instant a timezone-aware datetime denotes, in minutes of UTC.
Instant(dt) == dt.h * 60 + dt.mi - dt.off

\* The text that strptime's "%Y-%m-%d %H:%M:%S %z" accepts for dt.
AppleFormat(dt) ==
    "2020-01-01 " \o Pad2(dt.h) \o ":" \o Pad2(dt.mi) \o ":00 " \o OffsetText(dt.off, "")

\* The texts of the fixed pattern, and the datetime strptime returns for each.
AppleTexts == {AppleFormat(dt) : dt \in Datetimes}

strptime == [s \in AppleTexts |-> CHOOSE dt \in Datetimes : AppleFormat(dt) = s]

MatchesApplePattern(s) == s \in AppleTexts

parse_apple_datetime(s) == strptime[s]

\* datetime.isoformat(): the offset is written for an aware datetime only.
isoformat(dt) ==
    "2020-01-01T" \o Pad2(dt.h) \o ":" \o Pad2(dt.mi) \o ":00"
        \o (IF "off" \in DOMAIN dt THEN OffsetText(dt.off, ":") ELSE "")

\* datetime.fromisoformat(): aware when the text carries an offset.
IsoTexts == {isoformat(dt) : dt \in Datetimes \cup NaiveDatetimes}

fromisoformat_of ==
    [s \in IsoTexts |-> CHOOSE dt \in Datetimes \cup NaiveDatetimes : isoformat(dt) = s]

fromisoformat(s) == fromisoformat_of[s]

Days == {1, 2}

DateFormat(d) == "2020-01-" \o Pad2(d)

MatchesDatePattern(s) == \E d \in Days : DateFormat(d) = s

parse_apple_date(s) == CHOOSE d \in Days : DateFormat(d) = s

\* float("inf"), which no count of tenths reaches.
Infinity == 1000000000

\* float("nan"), which repr writes as "nan".
NaN == -1000000000

\* float(text) for the numeric literals of the model, in tenths.
FloatLiteral ==
    ("42" :> 420) @@ ("42.0" :> 420) @@ ("500.7" :> 5007) @@ ("30" :> 300)
        @@ ("-3.9" :> -39) @@ ("inf" :> Infinity) @@ ("1e999" :> Infinity)

to_float(opt) ==
    IF opt = None THEN None
    ELSE IF opt[1] \in DOMAIN FloatLiteral THEN Some(FloatLiteral[opt[1]])
    ELSE None

\* int(float(text)) raises OverflowError on an infinite float; _to_int catches
\* ValueError only.
OverflowError(opt) == to_float(opt) = Some(Infinity)

to_int(opt) ==
    IF opt = None THEN None
    ELSE IF opt[1] \in DOMAIN FloatLiteral
         THEN LET f == FloatLiteral[opt[1]]
              IN  Some(IF f >= 0 THEN f \div 10 ELSE -((-f) \div 10))
    ELSE None

\* repr(float): shortest round-trip rendering, always with a fractional part.
repr(f) ==
    IF f = NaN THEN "nan"
    ELSE (IF f < 0 THEN "-" ELSE "")
            \o ToString((IF f < 0 THEN -f ELSE f) \div 10) \o "."
            \o ToString((IF f < 0 THEN -f ELSE f) % 10)

\* "|".join(payload)
RECURSIVE Join(_)
Join(payload) ==
    IF Len(payload) = 0 THEN ""
    ELSE IF Len(payload) = 1 THEN payload[1]
    ELSE payload[1] \o "|" \o Join(Tail(payload))

OrEmpty(opt) == IF Truthy(opt) THEN opt[1] ELSE ""

sha256(raw) == raw

----------------------------------------------------------------------------
(* Elements of the export document *)

Element(tag, attrib, children) == [tag |-> tag, attrib |-> attrib, children |-> children]

MetaKeyValue == Element("MetadataEntry", [key |-> "HKSync", value |-> "abc"], <<>>)

MetaNoKey == Element("MetadataEntry", [value |-> "orphan"], <<>>)

RecSteps ==
    Element("Record",
            [type |-> "StepCount", sourceName |-> "iPhone", unit |-> "count", value |-> "42",
             startDate |-> "2020-01-01 10:00:00 +0100", endDate |-> "2020-01-01 10:05:00 +0100",
             creationDate |-> "2020-01-01 10:05:00 +0100"],
            <<MetaKeyValue, MetaNoKey>>)

RecSleep ==
    Element("Record",
            [type |-> "SleepAnalysis", value |-> "Asleep",
             startDate |-> "2020-01-01 09:00:00 +0000", endDate |-> "2020-01-01 09:05:00 +0000"],
            <<>>)

RecNoStart ==
    Element("Record",
            [type |-> "StepCount", value |-> "42", endDate |-> "2020-01-01 10:05:00 +0100"],
            <<MetaKeyValue>>)

RecEmptyType ==
    Element("Record",
            [type |-> "", startDate |-> "2020-01-01 10:00:00 +0100",
             endDate |-> "2020-01-01 10:05:00 +0100"],
            <<>>)

RecBadDate ==
    Element("Record",
            [type |-> "StepCount", value |-> "42",
             startDate |-> "2020-01-01T10:00:00+01:00", endDate |-> "2020-01-01 10:05:00 +0100"],
            <<>>)

WorkRun ==
    Element("Workout",
            [workoutActivityType |-> "Running", duration |-> "30", sourceName |-> "Watch",
             startDate |-> "2020-01-01 10:00:00 +0100", endDate |-> "2020-01-01 10:05:00 +0100"],
            <<MetaKeyValue>>)

WorkNoEnd ==
    Element("Workout",
            [workoutActivityType |-> "Running", startDate |-> "2020-01-01 10:00:00 +0100"],
            <<>>)

WorkBadDate ==
    Element("Workout",
            [workoutActivityType |-> "Running", startDate |-> "2020-01-01 10:00:00 +0100",
             endDate |-> "2020-01-01 10:05:00 +0100", creationDate |-> "yesterday"],
            <<>>)

SumDay1 ==
    Element("ActivitySummary",
            [dateComponents |-> "2020-01-01", activeEnergyBurned |-> "500.7",
             appleExerciseTime |-> "30"],
            <<>>)

SumDay1Late ==
    Element("ActivitySummary", [dateComponents |-> "2020-01-01", activeEnergyBurned |-> "42"],
            <<>>)

SumNoDay == Element("ActivitySummary", [activeEnergyBurned |-> "42"], <<>>)

SumBadDay == Element("ActivitySummary", [dateComponents |-> "01/01/2020"], <<>>)

ExportDate == Element("ExportDate", [value |-> "2020-01-02 10:00:00 +0100"], <<>>)

\* Elements of the documents fed to the extractors alone.
ExtractPool ==
    {RecSteps, RecSleep, RecNoStart, RecEmptyType, RecBadDate,
     WorkRun, WorkNoEnd, WorkBadDate, SumDay1, SumDay1Late, SumNoDay, SumBadDay, ExportDate}

RECURSIVE SeqsUpTo(_, _)
SeqsUpTo(S, n) ==
    IF n = 0 THEN {<<>>}
    ELSE LET shorter == SeqsUpTo(S, n - 1)
         IN  shorter \cup {Append(s, e) : s \in {t \in shorter : Len(t) = n - 1}, e \in S}

\* ET.iterparse(events=("end",)): every element is reported when it ends, so
\* the children of an element come before the element itself.
RECURSIVE EndEvents(_)
EndEvents(elems) ==
    IF Len(elems) = 0 THEN <<>>
    ELSE EndEvents(Head(elems).children) \o <<Head(elems)>> \o EndEvents(Tail(elems))

----------------------------------------------------------------------------
(* Identity hashes *)

\* The ingest copy of the hash drifting from the store's: creation_at left out.
stable_record_hash_without_creation(record) ==
    sha256(Join(<<record.record_type,
                  isoformat(record.start_at),
                  isoformat(record.end_at),
                  OrEmpty(record.source_name),
                  OrEmpty(record.unit),
                  IF record.value = None THEN "" ELSE repr(record.value[1]),
                  OrEmpty(record.value_str)>>))

\* ingest/apple_health_records.py
stable_record_hash(record) ==
    sha256(Join(<<record.record_type,
                  isoformat(record.start_at),
                  isoformat(record.end_at),
                  IF record.creation_at # None THEN isoformat(record.creation_at[1]) ELSE "",
                  OrEmpty(record.source_name),
                  OrEmpty(record.unit),
                  IF record.value = None THEN "" ELSE repr(record.value[1]),
                  OrEmpty(record.value_str)>>))

stable_workout_hash(workout) ==
    sha256(Join(<<workout.workout_activity_type,
                  isoformat(workout.start_at),
                  isoformat(workout.end_at),
                  IF workout.creation_at # None THEN isoformat(workout.creation_at[1]) ELSE "",
                  OrEmpty(workout.source_name),
                  OrEmpty(workout.device),
                  IF workout.duration_s = None THEN "" ELSE repr(workout.duration_s[1]),
                  IF workout.total_energy_kcal = None THEN ""
                  ELSE repr(workout.total_energy_kcal[1]),
                  IF workout.total_distance_m = None THEN ""
                  ELSE repr(workout.total_distance_m[1])>>))

----------------------------------------------------------------------------
(* Streaming extractors: what one end event does *)

\* The MetadataEntry children with both key and value, in child order.
RECURSIVE MetadataOf(_, _)
MetadataOf(children, hash) ==
    IF Len(children) = 0 THEN <<>>
    ELSE LET child == Head(children)
             rest == MetadataOf(Tail(children), hash)
         IN  IF child.tag # "MetadataEntry" THEN rest
             ELSE IF Get(child.attrib, "key") = None \/ Get(child.attrib, "value") = None
                  THEN rest
             ELSE <<[hash |-> hash, key |-> child.attrib.key, value |-> child.attrib.value]>>
                      \o rest

\* A timestamp attribute that is present (truthy) but not in the fixed pattern.
BadTimestamp(attrib, k) == Truthy(Get(attrib, k)) /\ ~MatchesApplePattern(attrib[k])

OptDatetime(attrib, k) ==
    IF Truthy(Get(attrib, k)) THEN Some(parse_apple_datetime(attrib[k])) ELSE None

Continue == [kind |-> "continue"]

Skip == [kind |-> "skip"]

Raise == [kind |-> "raise"]

Yield(item) == [kind |-> "yield", item |-> item]

\* value_str set to the raw text whether or not it parsed as a number.
value_str_always_raw(value, raw_value) == raw_value

\* "value_str = None if value is not None else raw_value"
value_str_of(value, raw_value) == IF value # None THEN None ELSE raw_value

\* The extractor putting on the metadata entries a hash that also digests
\* the number of children of the element.
iter_records_from_export_xml_hashing_children(elem) ==
    LET attrib == elem.attrib
        raw_value == Get(attrib, "value")
        value == to_float(raw_value)
        record == [record_type |-> attrib.type,
                   start_at |-> parse_apple_datetime(attrib.startDate),
                   end_at |-> parse_apple_datetime(attrib.endDate),
                   creation_at |-> OptDatetime(attrib, "creationDate"),
                   source_name |-> Get(attrib, "sourceName"),
                   unit |-> Get(attrib, "unit"),
                   value |-> value,
                   value_str |-> value_str_of(value, raw_value)]
    IN  IF elem.tag # "Record" THEN Continue
        ELSE IF ~Truthy(Get(attrib, "type")) \/ ~Truthy(Get(attrib, "startDate"))
                \/ ~Truthy(Get(attrib, "endDate"))
             THEN Skip
        ELSE IF BadTimestamp(attrib, "startDate") \/ BadTimestamp(attrib, "endDate")
                \/ BadTimestamp(attrib, "creationDate")
             THEN Raise
        ELSE Yield([entity |-> record,
                    metadata |->
                        MetadataOf(elem.children,
                                   sha256(Join(<<stable_record_hash(record),
                                                 ToString(Len(elem.children))>>)))])

iter_records_from_export_xml(elem) ==
    LET attrib == elem.attrib
        raw_value == Get(attrib, "value")
        value == to_float(raw_value)
        record == [record_type |-> attrib.type,
                   start_at |-> parse_apple_datetime(attrib.startDate),
                   end_at |-> parse_apple_datetime(attrib.endDate),
                   creation_at |-> OptDatetime(attrib, "creationDate"),
                   source_name |-> Get(attrib, "sourceName"),
                   unit |-> Get(attrib, "unit"),
                   value |-> value,
                   value_str |-> value_str_of(value, raw_value)]
    IN  IF elem.tag # "Record" THEN Continue
        ELSE IF ~Truthy(Get(attrib, "type")) \/ ~Truthy(Get(attrib, "startDate"))
                \/ ~Truthy(Get(attrib, "endDate"))
             THEN Skip
        ELSE IF BadTimestamp(attrib, "startDate") \/ BadTimestamp(attrib, "endDate")
                \/ BadTimestamp(attrib, "creationDate")
             THEN Raise
        ELSE Yield([entity |-> record,
                    metadata |-> MetadataOf(elem.children, stable_record_hash(record))])

iter_workouts_from_export_xml(elem) ==
    LET attrib == elem.attrib
        workout == [workout_activity_type |-> attrib.workoutActivityType,
                    start_at |-> parse_apple_datetime(attrib.startDate),
                    end_at |-> parse_apple_datetime(attrib.endDate),
                    creation_at |-> OptDatetime(attrib, "creationDate"),
                    source_name |-> Get(attrib, "sourceName"),
                    device |-> Get(attrib, "device"),
                    duration_s |-> to_float(Get(attrib, "duration")),
                    total_energy_kcal |-> to_float(Get(attrib, "totalEnergyBurned")),
                    total_distance_m |-> to_float(Get(attrib, "totalDistance"))]
    IN  IF elem.tag # "Workout" THEN Continue
        ELSE IF ~Truthy(Get(attrib, "workoutActivityType")) \/ ~Truthy(Get(attrib, "startDate"))
                \/ ~Truthy(Get(attrib, "endDate"))
             THEN Skip
        ELSE IF BadTimestamp(attrib, "startDate") \/ BadTimestamp(attrib, "endDate")
                \/ BadTimestamp(attrib, "creationDate")
             THEN Raise
        ELSE Yield([entity |-> workout,
                    metadata |-> MetadataOf(elem.children, stable_workout_hash(workout))])

IntegerAttributes ==
    {"activeEnergyBurned", "activeEnergyBurnedGoal", "appleExerciseTime",
     "appleExerciseTimeGoal", "appleStandHours", "appleStandHoursGoal"}

iter_activity_summaries_from_export_xml(elem) ==
    LET attrib == elem.attrib
    IN  IF elem.tag # "ActivitySummary" THEN Continue
        ELSE IF ~Truthy(Get(attrib, "dateComponents")) THEN Skip
        ELSE IF ~MatchesDatePattern(attrib.dateComponents) THEN Raise
        ELSE IF \E k \in IntegerAttributes : OverflowError(Get(attrib, k)) THEN Raise
        ELSE Yield([day |-> parse_apple_date(attrib.dateComponents),
                    active_energy_burned_kcal |-> to_int(Get(attrib, "activeEnergyBurned")),
                    active_energy_burned_goal_kcal |->
                        to_int(Get(attrib, "activeEnergyBurnedGoal")),
                    apple_exercise_time_min |-> to_int(Get(attrib, "appleExerciseTime")),
                    apple_exercise_time_goal_min |->
                        to_int(Get(attrib, "appleExerciseTimeGoal")),
                    apple_stand_hours |-> to_int(Get(attrib, "appleStandHours")),
                    apple_stand_hours_goal |-> to_int(Get(attrib, "appleStandHoursGoal"))])

Extractor(kind, elem) ==
    CASE kind = "Record" -> iter_records_from_export_xml(elem)
      [] kind = "Workout" -> iter_workouts_from_export_xml(elem)
      [] kind = "ActivitySummary" -> iter_activity_summaries_from_export_xml(elem)

Kinds == {"Record", "Workout", "ActivitySummary"}

----------------------------------------------------------------------------
(* SQLite store: schema, statements and upsert calls *)

Tables == {"health_record", "record_metadata", "activity_summary", "workout", "workout_metadata"}

\* The tables whose id column is INTEGER PRIMARY KEY AUTOINCREMENT.
AutoIncrement == {"health_record", "record_metadata", "workout", "workout_metadata"}

\* A database is one sequence of rows per table, in rowid order, and SQLite's
\* sqlite_sequence table: the largest rowid handed out so far per table.
EmptyDb ==
    [t \in Tables \cup {"sqlite_sequence"} |->
        IF t = "sqlite_sequence" THEN [a \in AutoIncrement |-> 0] ELSE <<>>]

Range(s) == {s[i] : i \in 1..Len(s)}

\* The column(s) under a UNIQUE or PRIMARY KEY constraint in _SCHEMA_SQL.
UniqueKey(tname, row) ==
    CASE tname = "health_record" -> <<row.record_hash>>
      [] tname = "record_metadata" -> <<row.record_hash, row.key, row.value>>
      [] tname = "activity_summary" -> <<row.day>>
      [] tname = "workout" -> <<row.workout_hash>>
      [] tname = "workout_metadata" -> <<row.workout_hash, row.key, row.value>>

\* The schema without UNIQUE(record_hash, key, value) on record_metadata.
Conflicts_no_unique_metadata(rows, tname, row) ==
    /\ tname # "record_metadata"
    /\ \E i \in 1..Len(rows) : UniqueKey(tname, rows[i]) = UniqueKey(tname, row)

\* The schema without the UNIQUE constraint on health_record.record_hash.
Conflicts_no_unique_hash(rows, tname, row) ==
    /\ tname # "health_record"
    /\ \E i \in 1..Len(rows) : UniqueKey(tname, rows[i]) = UniqueKey(tname, row)

Conflicts(rows, tname, row) ==
    \E i \in 1..Len(rows) : UniqueKey(tname, rows[i]) = UniqueKey(tname, row)

\* Counting every row handed to the statement, ignored or not.
changes_every_row(view, tname, row) == 1

\* sqlite3_changes() after one INSERT OR IGNORE.
changes(view, tname, row) == IF Conflicts(view[tname], tname, row) THEN 0 ELSE 1

\* INSERT OR REPLACE: the stored row with the same key gives way to the new one.
execute_or_replace(view, tname, row) ==
    LET kept == SelectSeq(view[tname],
                          LAMBDA old : UniqueKey(tname, old) # UniqueKey(tname, row))
    IN  IF tname \in AutoIncrement
        THEN LET rowid == view["sqlite_sequence"][tname] + 1
             IN  [view EXCEPT !["sqlite_sequence"][tname] = rowid,
                              ![tname] = Append(kept, [id |-> rowid] @@ row)]
        ELSE [view EXCEPT ![tname] = Append(kept, row)]

\* One INSERT OR IGNORE.  On an AUTOINCREMENT table the statement takes the
\* next rowid before the UNIQUE constraint is checked, so an ignored row
\* uses up a rowid too.
execute(view, tname, row) ==
    IF tname \in AutoIncrement
    THEN LET rowid == view["sqlite_sequence"][tname] + 1
             taken == [view EXCEPT !["sqlite_sequence"][tname] = rowid]
         IN  IF Conflicts(view[tname], tname, row) THEN taken
             ELSE [taken EXCEPT ![tname] = Append(@, [id |-> rowid] @@ row)]
    ELSE IF Conflicts(view[tname], tname, row) THEN view
         ELSE [view EXCEPT ![tname] = Append(@, row)]

\* cursor.executemany: the statement once per row; rowcount sums the changes.
RECURSIVE executemany(_, _, _)
executemany(view, tname, rows) ==
    IF Len(rows) = 0 THEN [view |-> view, rowcount |-> 0]
    ELSE LET rest == executemany(execute(view, tname, Head(rows)), tname, Tail(rows))
         IN  [view |-> rest.view,
              rowcount |-> changes(view, tname, Head(rows)) + rest.rowcount]

\* The serialisation writing the wall-clock time without the offset.
dt_to_iso_without_offset(opt) ==
    IF opt = None THEN None ELSE Some(isoformat([h |-> opt[1].h, mi |-> opt[1].mi]))

dt_to_iso(opt) == IF opt = None THEN None ELSE Some(isoformat(opt[1]))

\* storage/sqlite_store.py, over HealthRecord
store_stable_record_hash(record) ==
    sha256(Join(<<record.type,
                  isoformat(record.start_at),
                  isoformat(record.end_at),
                  IF record.creation_at # None THEN isoformat(record.creation_at[1]) ELSE "",
                  OrEmpty(record.source_name),
                  OrEmpty(record.unit),
                  IF record.value = None THEN "" ELSE repr(record.value[1]),
                  OrEmpty(record.value_str)>>))

RecordRow(r) ==
    [type |-> r.type,
     start_at |-> dt_to_iso(Some(r.start_at)),
     end_at |-> dt_to_iso(Some(r.end_at)),
     creation_at |-> dt_to_iso(r.creation_at),
     source_name |-> r.source_name,
     unit |-> r.unit,
     value |-> r.value,
     value_str |-> r.value_str,
     record_hash |-> store_stable_record_hash(r)]

WorkoutRow(w) ==
    [workout_activity_type |-> w.workout_activity_type,
     start_at |-> dt_to_iso(Some(w.start_at)),
     end_at |-> dt_to_iso(Some(w.end_at)),
     creation_at |-> dt_to_iso(w.creation_at),
     source_name |-> w.source_name,
     device |-> w.device,
     duration_s |-> w.duration_s,
     total_energy_kcal |-> w.total_energy_kcal,
     total_distance_m |-> w.total_distance_m,
     workout_hash |-> stable_workout_hash(w)]

WorkoutMetaRow(m) == [workout_hash |-> m.hash, key |-> m.key, value |-> m.value]

MapSeq(s, Op(_)) == [i \in 1..Len(s) |-> Op(s[i])]

\* The statements of one upsert call, in order; a statement with no rows is
\* not executed, and a call with no statement returns before touching the
\* connection.
Statement(tname, rows) == [table |-> tname, rows |-> rows]

upsert_records_statements(records) ==
    IF Len(records) = 0 THEN <<>>
    ELSE <<Statement("health_record", MapSeq(records, RecordRow))>>

upsert_record_metadata_statements(metadata) ==
    IF Len(metadata) = 0 THEN <<>> ELSE <<Statement("record_metadata", metadata)>>

upsert_activity_summaries_statements(rows) ==
    IF Len(rows) = 0 THEN <<>> ELSE <<Statement("activity_summary", rows)>>

upsert_workouts_statements(workouts, metadata) ==
    (IF Len(workouts) = 0 THEN <<>>
     ELSE <<Statement("workout", MapSeq(workouts, WorkoutRow))>>)
    \o (IF Len(metadata) = 0 THEN <<>>
        ELSE <<Statement("workout_metadata", MapSeq(metadata, WorkoutMetaRow))>>)

\* A connection in autocommit mode: every statement is committed as it runs.
VisibleAfterExecute_autocommit(committed, view) == view

\* What other connections can read after a statement ran inside the writer's
\* open transaction: still the committed database.
VisibleAfterExecute(committed, view) == committed

\* A whole upsert call on a connection with no open transaction: every
\* statement, then con.commit().  counts has one rowcount per table.
RECURSIVE RunStatements(_, _)
RunStatements(view, stmts) ==
    IF Len(stmts) = 0 THEN [view |-> view, counts |-> [t \in Tables |-> 0]]
    ELSE LET first == executemany(view, Head(stmts).table, Head(stmts).rows)
             rest == RunStatements(first.view, Tail(stmts))
         IN  [view |-> rest.view,
              counts |-> [rest.counts EXCEPT ![Head(stmts).table] = @ + first.rowcount]]

upsert_records(con, records) ==
    LET r == RunStatements(con, upsert_records_statements(records))
    IN  [db |-> r.view, ret |-> r.counts["health_record"]]

\* upsert_record_metadata without its con.commit(): closing the connection
\* drops the rows.
upsert_record_metadata_uncommitted(con, metadata) ==
    LET r == RunStatements(con, upsert_record_metadata_statements(metadata))
    IN  [db |-> con, ret |-> r.counts["record_metadata"]]

upsert_record_metadata(con, metadata) ==
    LET r == RunStatements(con, upsert_record_metadata_statements(metadata))
    IN  [db |-> r.view, ret |-> r.counts["record_metadata"]]

upsert_activity_summaries(con, rows) ==
    LET r == RunStatements(con, upsert_activity_summaries_statements(rows))
    IN  [db |-> r.view, ret |-> r.counts["activity_summary"]]

upsert_workouts(con, workouts, metadata) ==
    LET r == RunStatements(con, upsert_workouts_statements(workouts, metadata))
    IN  [db |-> r.view, ret |-> <<r.counts["workout"], r.counts["workout_metadata"]>>]

----------------------------------------------------------------------------
(* What the importer hands to the store *)

\* importer.py builds a HealthRecord from each Record.
HealthRecord(rec) ==
    [type |-> rec.record_type,
     start_at |-> rec.start_at,
     end_at |-> rec.end_at,
     creation_at |-> rec.creation_at,
     source_name |-> rec.source_name,
     unit |-> rec.unit,
     value |-> rec.value,
     value_str |-> rec.value_str]

RecordMetaRow(m) == [record_hash |-> m.hash, key |-> m.key, value |-> m.value]

date_isoformat(d) == DateFormat(d)

ActivityRow(s) ==
    [day |-> date_isoformat(s.day),
     active_energy_burned_kcal |-> s.active_energy_burned_kcal,
     active_energy_burned_goal_kcal |-> s.active_energy_burned_goal_kcal,
     apple_exercise_time_min |-> s.apple_exercise_time_min,
     apple_exercise_time_goal_min |-> s.apple_exercise_time_goal_min,
     apple_stand_hours |-> s.apple_stand_hours,
     apple_stand_hours_goal |-> s.apple_stand_hours_goal]

\* Everything an extractor can yield from the elements of the model.
Items(kind) ==
    {Extractor(kind, e).item : e \in {x \in ExtractPool : Extractor(kind, x).kind = "yield"}}

HealthRecords == {HealthRecord(it.entity) : it \in Items("Record")}

RecordMetaRows ==
    UNION {{RecordMetaRow(it.metadata[i]) : i \in 1..Len(it.metadata)} : it \in Items("Record")}

Workouts == {it.entity : it \in Items("Workout")}

WorkoutMetadata ==
    UNION {{it.metadata[i] : i \in 1..Len(it.metadata)} : it \in Items("Workout")}

ActivityRows == {ActivityRow(it) : it \in Items("ActivitySummary")}

----------------------------------------------------------------------------
(* The store under direct upsert calls, one SQL row per step, with a reader *)
(* on a second connection                                                   *)

NoCall == [op |-> "none"]

NoSizes == [record_batch_size |-> 0, workout_batch_size |-> 0]

NoLocals == [stage |-> "none"]

NoReturn == [op |-> "none"]

NotRead == [read |-> FALSE]

InitStore ==
    /\ db = EmptyDb
    /\ txn = EmptyDb
    /\ call = NoCall
    /\ ret = NoReturn
    /\ seen = NotRead
    /\ ncalls = 0
    /\ doc = <<>>
    /\ xkind = "Record"
    /\ xpos = 0
    /\ xstatus = "stopped"
    /\ yielded = <<>>
    /\ xlast = "none"
    /\ pc = "idle"
    /\ pos = 0
    /\ sizes = NoSizes
    /\ loc = NoLocals
    /\ runs = 0
    /\ hist = <<>>
    /\ NoApplication

\* Entry of an upsert call: the early return on empty input, else the
\* statements are prepared and the first execute opens a transaction.
Enter(op, stmts) ==
    /\ call = NoCall
    /\ ncalls < MaxCalls
    /\ ncalls' = ncalls + 1
    /\ seen' = NotRead
    /\ IF Len(stmts) = 0
       THEN /\ ret' = [op |-> op, counts |-> [t \in Tables |-> 0], pre |-> db,
                       submitted |-> 0]
            /\ UNCHANGED <<db, txn, call>>
       ELSE /\ call' = [op |-> op, stmts |-> stmts, si |-> 1, ri |-> 0,
                        counts |-> [t \in Tables |-> 0], pre |-> db, phase |-> "exec",
                        submitted |-> Len(stmts[1].rows)
                                      + (IF Len(stmts) > 1 THEN Len(stmts[2].rows) ELSE 0)]
            /\ txn' = db
            /\ ret' = NoReturn
            /\ UNCHANGED db
    /\ UNCHANGED <<xvars, ivars, fvars>>

CallUpsertRecords ==
    /\ call = NoCall
    /\ \E records \in SeqsUpTo(HealthRecords, MaxBatchLen) :
        Enter("upsert_records", upsert_records_statements(records))

CallUpsertRecordMetadata ==
    /\ call = NoCall
    /\ \E metadata \in SeqsUpTo(RecordMetaRows, MaxBatchLen) :
        Enter("upsert_record_metadata", upsert_record_metadata_statements(metadata))

CallUpsertActivitySummaries ==
    /\ call = NoCall
    /\ \E rows \in SeqsUpTo(ActivityRows, MaxBatchLen) :
        Enter("upsert_activity_summaries", upsert_activity_summaries_statements(rows))

CallUpsertWorkouts ==
    /\ call = NoCall
    /\ \E workouts \in SeqsUpTo(Workouts, MaxBatchLen) :
        \E metadata \in SeqsUpTo(WorkoutMetadata, MaxBatchLen) :
            Enter("upsert_workouts", upsert_workouts_statements(workouts, metadata))

\* executemany binds the next row and runs the INSERT OR IGNORE.
ExecuteRow ==
    /\ call # NoCall
    /\ call.phase = "exec"
    /\ call.si <= Len(call.stmts)
    /\ LET stmt == call.stmts[call.si]
           row == stmt.rows[call.ri + 1]
           last == call.ri + 1 = Len(stmt.rows)
       IN  /\ txn' = execute(txn, stmt.table, row)
           /\ db' = VisibleAfterExecute(db, txn')
           /\ call' = [call EXCEPT
                          !.counts[stmt.table] = @ + changes(txn, stmt.table, row),
                          !.si = IF last THEN @ + 1 ELSE @,
                          !.ri = IF last THEN 0 ELSE @ + 1]
    /\ UNCHANGED <<ret, seen, ncalls>>
    /\ UNCHANGED <<xvars, ivars, fvars>>

\* con.commit()
Commit ==
    /\ call # NoCall
    /\ call.phase = "exec"
    /\ call.si > Len(call.stmts)
    /\ db' = txn
    /\ call' = [call EXCEPT !.phase = "committed"]
    /\ UNCHANGED <<txn, ret, seen, ncalls>>
    /\ UNCHANGED <<xvars, ivars, fvars>>

\* return cur.rowcount
Return ==
    /\ call # NoCall
    /\ call.phase = "committed"
    /\ ret' = [op |-> call.op, counts |-> call.counts, pre |-> call.pre,
               submitted |-> call.submitted]
    /\ call' = NoCall
    /\ UNCHANGED <<db, txn, seen, ncalls>>
    /\ UNCHANGED <<xvars, ivars, fvars>>

\* The writer is interrupted before its commit: closing the connection rolls
\* the open transaction back.
CloseUncommitted ==
    /\ call # NoCall
    /\ call.phase = "exec"
    /\ txn' = db
    /\ call' = NoCall
    /\ ret' = [op |-> "interrupted"]
    /\ UNCHANGED <<db, seen, ncalls>>
    /\ UNCHANGED <<xvars, ivars, fvars>>

\* A query on the reader's own connection while the call is running.
ReaderQuery ==
    /\ call # NoCall
    /\ seen' = [read |-> TRUE, view |-> db, during |-> call]
    /\ UNCHANGED <<db, txn, call, ret, ncalls>>
    /\ UNCHANGED <<xvars, ivars, fvars>>

\* local_data.py delete_local_data: the database file is unlinked; the next
\* connection opens a new, empty database.
DeleteLocalData ==
    /\ call = NoCall
    /\ db # EmptyDb
    /\ db' = EmptyDb
    /\ txn' = EmptyDb
    /\ ret' = NoReturn
    /\ seen' = NotRead
    /\ UNCHANGED <<call, ncalls>>
    /\ UNCHANGED <<xvars, ivars, fvars>>

NextStore ==
    \/ DeleteLocalData
    \/ CallUpsertRecords
    \/ CallUpsertRecordMetadata
    \/ CallUpsertActivitySummaries
    \/ CallUpsertWorkouts
    \/ ExecuteRow
    \/ Commit
    \/ Return
    \/ CloseUncommitted
    \/ ReaderQuery

SpecStore == InitStore /\ [][NextStore]_vars

----------------------------------------------------------------------------
(* The extractors on their own: one end event per step *)

InitExtract ==
    /\ doc \in SeqsUpTo(ExtractPool, MaxDocLen)
    /\ xkind \in Kinds
    /\ xpos = 0
    /\ xstatus = "running"
    /\ yielded = <<>>
    /\ xlast = "none"
    /\ db = EmptyDb
    /\ txn = EmptyDb
    /\ call = NoCall
    /\ ret = NoReturn
    /\ seen = NotRead
    /\ ncalls = 0
    /\ pc = "idle"
    /\ pos = 0
    /\ sizes = NoSizes
    /\ loc = NoLocals
    /\ runs = 0
    /\ hist = <<>>
    /\ NoApplication

\* The loop body of the generator for the next end event.
ExtractEvent ==
    /\ xstatus = "running"
    /\ xpos < Len(EndEvents(doc))
    /\ LET out == Extractor(xkind, EndEvents(doc)[xpos + 1])
       IN  /\ xlast' = out.kind
           /\ xstatus' = IF out.kind = "raise" THEN "raised" ELSE "running"
           /\ yielded' = IF out.kind = "yield" THEN Append(yielded, out.item) ELSE yielded
    /\ xpos' = xpos + 1
    /\ UNCHANGED <<doc, xkind>>
    /\ UNCHANGED <<svars, ivars, fvars>>

\* The parser has no more events (the root element's own end event is not a
\* target tag): the generator returns.
ExtractStop ==
    /\ xstatus = "running"
    /\ xpos = Len(EndEvents(doc))
    /\ xstatus' = "stopped"
    /\ xlast' = "stop"
    /\ UNCHANGED <<doc, xkind, xpos, yielded>>
    /\ UNCHANGED <<svars, ivars, fvars>>

NextExtract == ExtractEvent \/ ExtractStop

SpecExtract == InitExtract /\ [][NextExtract]_vars

----------------------------------------------------------------------------
(* import_export_xml_to_sqlite_all *)

\* Elements of the documents that are imported.
ImportPool == {RecSteps, RecSleep, RecNoStart, RecBadDate, WorkRun, SumDay1}

\* The generator returning at the first skipped element instead of going on.
RECURSIVE NextItem_stops_on_skip(_, _, _)
NextItem_stops_on_skip(kind, events, p) ==
    IF p >= Len(events) THEN [kind |-> "stop", pos |-> p]
    ELSE LET out == Extractor(kind, events[p + 1])
         IN  IF out.kind = "yield" THEN [kind |-> "yield", pos |-> p + 1, item |-> out.item]
             ELSE IF out.kind = "raise" THEN [kind |-> "raise", pos |-> p + 1]
             ELSE IF out.kind = "skip" THEN [kind |-> "stop", pos |-> Len(events)]
             ELSE NextItem_stops_on_skip(kind, events, p + 1)

\* Resuming the generator: it handles end events from position p on until one
\* of them makes it yield or raise, or the events run out.
RECURSIVE NextItem(_, _, _)
NextItem(kind, events, p) ==
    IF p >= Len(events) THEN [kind |-> "stop", pos |-> p]
    ELSE LET out == Extractor(kind, events[p + 1])
         IN  IF out.kind = "yield" THEN [kind |-> "yield", pos |-> p + 1, item |-> out.item]
             ELSE IF out.kind = "raise" THEN [kind |-> "raise", pos |-> p + 1]
             ELSE NextItem(kind, events, p + 1)

\* list(extractor(path)): everything the generator yields before it stops or
\* raises.
RECURSIVE Collect(_, _)
Collect(kind, events) ==
    IF Len(events) = 0 THEN <<>>
    ELSE LET out == Extractor(kind, Head(events))
         IN  IF out.kind = "yield" THEN <<out.item>> \o Collect(kind, Tail(events))
             ELSE IF out.kind = "raise" THEN <<>>
             ELSE Collect(kind, Tail(events))

RECURSIVE Concat(_)
Concat(seqs) == IF Len(seqs) = 0 THEN <<>> ELSE Head(seqs) \o Concat(Tail(seqs))

\* An uninterrupted import of document d whose batch sizes exceed the
\* document: each pass ends in a single flush.
ImportInOneBatch(store, d) ==
    LET records == Collect("Record", EndEvents(d))
        summaries == Collect("ActivitySummary", EndEvents(d))
        workouts == Collect("Workout", EndEvents(d))
        d1 == upsert_records(store,
                  [i \in 1..Len(records) |-> HealthRecord(records[i].entity)]).db
        d2 == upsert_record_metadata(d1,
                  Concat([i \in 1..Len(records) |->
                             MapSeq(records[i].metadata, RecordMetaRow)])).db
        d3 == upsert_activity_summaries(d2, MapSeq(summaries, ActivityRow)).db
    IN  upsert_workouts(d3,
                        [i \in 1..Len(workouts) |-> workouts[i].entity],
                        Concat([i \in 1..Len(workouts) |-> workouts[i].metadata])).db

\* An export taken earlier the same day, overlapping the documents of the
\* model: the store is new or holds the import of that export.
PriorExport == <<RecSteps, SumDay1Late>>

PriorStores == {EmptyDb, ImportInOneBatch(EmptyDb, PriorExport)}

InitImport ==
    /\ doc \in SeqsUpTo(ImportPool, MaxDocLen)
    /\ xkind = "Record"
    /\ xpos = 0
    /\ xstatus = "stopped"
    /\ yielded = <<>>
    /\ xlast = "none"
    /\ db \in PriorStores
    /\ txn = EmptyDb
    /\ call = NoCall
    /\ ret = NoReturn
    /\ seen = NotRead
    /\ ncalls = 0
    /\ pc = "idle"
    /\ pos = 0
    /\ sizes = NoSizes
    /\ loc = NoLocals
    /\ runs = 0
    /\ hist = <<>>
    /\ NoApplication

Frame == UNCHANGED <<xvars, txn, call, ret, seen, ncalls, fvars>>

\* The flush waiting until the batch has outgrown its size.
BatchFull_when_above(n, size) == n > size

\* "if len(batch) >= batch_size", n the length of the batch.
BatchFull(n, size) == n >= size

\* A batch that still holds its entities after the flush.
clear_keeps_batch(batch) == batch

\* list.clear() on a batch after its flush.
clear(batch) == <<>>

\* A call of the progress callback, as the caller receives it.
ProgressCall(stage, processed) == [stage |-> stage, processed |-> processed]

\* "if on_progress and processed % N == 0: on_progress(stage, processed)";
\* calls is the sequence of calls the callback has received so far.
ReportEvery(on_progress, calls, stage, processed, every) ==
    IF on_progress /\ processed % every = 0
    THEN Append(calls, ProgressCall(stage, processed))
    ELSE calls

\* The pass going on without its call at completion.
ReportCompletion_omitted(on_progress, calls, stage, processed) == calls

\* After the pass: "if on_progress: on_progress(stage, processed)".
ReportCompletion(on_progress, calls, stage, processed) ==
    IF on_progress THEN Append(calls, ProgressCall(stage, processed)) ELSE calls

\* con.close()
close(con) == "closed"

\* The connection closed at the end of the try body, which an error skips.
Finally_after_return_only(outcome, con) == IF outcome = "returned" THEN close(con) ELSE con

\* "finally: con.close()": runs however the try body is left.
Finally(outcome, con) == close(con)

\* The run with the locals l ends: the finally clause closes the connection,
\* the locals die.
FinishWith(l, outcome, result, store, flushed, calls) ==
    /\ pc' = "idle"
    /\ pos' = 0
    /\ sizes' = NoSizes
    /\ loc' = NoLocals
    /\ hist' = Append(hist, [function |-> "import_export_xml_to_sqlite_all",
                             outcome |-> outcome, result |-> result,
                             start |-> l.start, db |-> store, flushed |-> flushed,
                             on_progress |-> l.on_progress, progress |-> calls,
                             processed |-> [records |-> l.records_processed,
                                            activity |-> l.activity_processed,
                                            workouts |-> l.workouts_processed],
                             con |-> Finally(outcome, l.con)])

Finish(outcome, result, store, flushed, calls) ==
    FinishWith(loc, outcome, result, store, flushed, calls)

\* open_db, init_db and the initial assignments of the locals.
ImportBegin ==
    /\ pc = "idle"
    /\ runs < MaxRuns
    /\ runs' = runs + 1
    /\ \E rbs \in 1..MaxBatchSize, wbs \in 1..MaxBatchSize :
          sizes' = [record_batch_size |-> rbs, workout_batch_size |-> wbs]
    /\ \E on_progress \in BOOLEAN :
       loc' = [stage |-> "records",
               on_progress |-> on_progress,
               progress |-> <<>>,
               start |-> db,
               flushed |-> [t \in Tables |-> <<>>],
               con |-> "open",
               records_processed |-> 0,
               records_inserted |-> 0,
               record_metadata_inserted |-> 0,
               record_batch |-> <<>>,
               record_meta_rows |-> <<>>,
               activity_processed |-> 0,
               activity_inserted |-> 0,
               activity_rows |-> <<>>,
               workouts_processed |-> 0,
               workouts_inserted_total |-> 0,
               workout_meta_inserted_total |-> 0,
               workout_batch |-> <<>>,
               meta_batch |-> <<>>]
    /\ pc' = "records"
    /\ pos' = 0
    /\ UNCHANGED <<db, hist>>
    /\ Frame

\* One turn of "for rec, meta in iter_records_from_export_xml(...)".
RecordsNext ==
    /\ pc = "records"
    /\ LET nxt == NextItem("Record", EndEvents(doc), pos)
       IN  CASE nxt.kind = "yield" ->
                  /\ loc' = [loc EXCEPT
                                !.record_batch = Append(@, HealthRecord(nxt.item.entity)),
                                !.record_meta_rows = @ \o MapSeq(nxt.item.metadata, RecordMetaRow),
                                !.records_processed = @ + 1,
                                !.progress = ReportEvery(loc.on_progress, @, "records",
                                                         loc.records_processed + 1,
                                                         RecordsProgressEvery)]
                  /\ pc' = IF BatchFull(Len(loc.record_batch) + 1, sizes.record_batch_size)
                           THEN "records_flush" ELSE "records"
                  /\ pos' = nxt.pos
                  /\ UNCHANGED <<sizes, hist>>
             [] nxt.kind = "stop" ->
                  /\ pc' = "records_tail"
                  /\ pos' = nxt.pos
                  /\ UNCHANGED <<loc, sizes, hist>>
             [] nxt.kind = "raise" ->
                  Finish("raised", [stage |-> "records"], db, loc.flushed, loc.progress)
    /\ UNCHANGED <<db, runs>>
    /\ Frame

\* In the loop, the batch is full: upsert_records.
RecordsFlush ==
    /\ pc = "records_flush"
    /\ LET r == upsert_records(db, loc.record_batch)
       IN  /\ db' = r.db
           /\ loc' = [loc EXCEPT
                         !.records_inserted = @ + r.ret,
                         !.flushed["health_record"] = @ \o MapSeq(loc.record_batch, RecordRow)]
    /\ pc' = "records_flush_metadata"
    /\ UNCHANGED <<pos, sizes, runs, hist>>
    /\ Frame

\* ... then upsert_record_metadata, and both batches are cleared.
RecordsFlushMetadata ==
    /\ pc = "records_flush_metadata"
    /\ LET r == upsert_record_metadata(db, loc.record_meta_rows)
       IN  /\ db' = r.db
           /\ loc' = [loc EXCEPT !.record_metadata_inserted = @ + r.ret,
                                 !.flushed["record_metadata"] = @ \o loc.record_meta_rows,
                                 !.record_batch = clear(@),
                                 !.record_meta_rows = clear(@)]
    /\ pc' = "records"
    /\ UNCHANGED <<pos, sizes, runs, hist>>
    /\ Frame

\* After the loop: "if record_batch or record_meta_rows", upsert_records.
RecordsTail ==
    /\ pc = "records_tail"
    /\ IF Len(loc.record_batch) > 0 \/ Len(loc.record_meta_rows) > 0
       THEN LET r == upsert_records(db, loc.record_batch)
            IN  /\ db' = r.db
                /\ loc' = [loc EXCEPT
                              !.records_inserted = @ + r.ret,
                              !.flushed["health_record"] =
                                  @ \o MapSeq(loc.record_batch, RecordRow)]
                /\ pc' = "records_tail_metadata"
                /\ pos' = pos
       ELSE /\ pc' = "activity"
            /\ pos' = 0
            /\ loc' = [loc EXCEPT
                          !.stage = "activity",
                          !.progress = ReportCompletion(loc.on_progress, @, "records",
                                                        loc.records_processed)]
            /\ UNCHANGED db
    /\ UNCHANGED <<sizes, runs, hist>>
    /\ Frame

\* ... then upsert_record_metadata; the activity summary pass starts.
RecordsTailMetadata ==
    /\ pc = "records_tail_metadata"
    /\ LET r == upsert_record_metadata(db, loc.record_meta_rows)
       IN  /\ db' = r.db
           /\ loc' = [loc EXCEPT !.record_metadata_inserted = @ + r.ret,
                                 !.flushed["record_metadata"] = @ \o loc.record_meta_rows,
                                 !.stage = "activity",
                                 !.progress = ReportCompletion(loc.on_progress, @, "records",
                                                               loc.records_processed)]
    /\ pc' = "activity"
    /\ pos' = 0
    /\ UNCHANGED <<sizes, runs, hist>>
    /\ Frame

\* One turn of "for s in iter_activity_summaries_from_export_xml(...)".
ActivityNext ==
    /\ pc = "activity"
    /\ LET nxt == NextItem("ActivitySummary", EndEvents(doc), pos)
       IN  CASE nxt.kind = "yield" ->
                  /\ loc' = [loc EXCEPT !.activity_rows = Append(@, ActivityRow(nxt.item)),
                                        !.activity_processed = @ + 1]
                  /\ pc' = IF BatchFull(Len(loc.activity_rows) + 1, ActivityBatchSize)
                           THEN "activity_flush" ELSE "activity"
                  /\ pos' = nxt.pos
                  /\ UNCHANGED <<sizes, hist>>
             [] nxt.kind = "stop" ->
                  /\ pc' = "activity_tail"
                  /\ pos' = nxt.pos
                  /\ UNCHANGED <<loc, sizes, hist>>
             [] nxt.kind = "raise" ->
                  Finish("raised", [stage |-> "activity"], db, loc.flushed, loc.progress)
    /\ UNCHANGED <<db, runs>>
    /\ Frame

ActivityFlush ==
    /\ pc = "activity_flush"
    /\ LET r == upsert_activity_summaries(db, loc.activity_rows)
       IN  /\ db' = r.db
           /\ loc' = [loc EXCEPT !.activity_inserted = @ + r.ret,
                                 !.flushed["activity_summary"] = @ \o loc.activity_rows,
                                 !.activity_rows = clear(@)]
    /\ pc' = "activity"
    /\ UNCHANGED <<pos, sizes, runs, hist>>
    /\ Frame

\* After the loop: "if activity_rows"; the workouts pass starts.
ActivityTail ==
    /\ pc = "activity_tail"
    /\ LET r == upsert_activity_summaries(db, loc.activity_rows)
       IN  /\ db' = r.db
           /\ loc' = [loc EXCEPT !.activity_inserted = @ + r.ret,
                                 !.flushed["activity_summary"] = @ \o loc.activity_rows,
                                 !.stage = "workouts"]
    /\ pc' = "workouts"
    /\ pos' = 0
    /\ UNCHANGED <<sizes, runs, hist>>
    /\ Frame

\* One turn of "for workout, metadata in iter_workouts_from_export_xml(...)".
WorkoutsNext ==
    /\ pc = "workouts"
    /\ LET nxt == NextItem("Workout", EndEvents(doc), pos)
       IN  CASE nxt.kind = "yield" ->
                  /\ loc' = [loc EXCEPT !.workout_batch = Append(@, nxt.item.entity),
                                        !.meta_batch = @ \o nxt.item.metadata,
                                        !.workouts_processed = @ + 1,
                                        !.progress = ReportEvery(loc.on_progress, @, "workouts",
                                                                 loc.workouts_processed + 1,
                                                                 WorkoutsProgressEvery)]
                  /\ pc' = IF BatchFull(Len(loc.workout_batch) + 1, sizes.workout_batch_size)
                           THEN "workouts_flush" ELSE "workouts"
                  /\ pos' = nxt.pos
                  /\ UNCHANGED <<sizes, hist>>
             [] nxt.kind = "stop" ->
                  /\ pc' = "workouts_tail"
                  /\ pos' = nxt.pos
                  /\ UNCHANGED <<loc, sizes, hist>>
             [] nxt.kind = "raise" ->
                  Finish("raised", [stage |-> "workouts"], db, loc.flushed, loc.progress)
    /\ UNCHANGED <<db, runs>>
    /\ Frame

WorkoutsFlush ==
    /\ pc = "workouts_flush"
    /\ LET r == upsert_workouts(db, loc.workout_batch, loc.meta_batch)
       IN  /\ db' = r.db
           /\ loc' = [loc EXCEPT !.workouts_inserted_total = @ + r.ret[1],
                                 !.workout_meta_inserted_total = @ + r.ret[2],
                                 !.flushed["workout"] =
                                     @ \o MapSeq(loc.workout_batch, WorkoutRow),
                                 !.flushed["workout_metadata"] =
                                     @ \o MapSeq(loc.meta_batch, WorkoutMetaRow),
                                 !.workout_batch = clear(@),
                                 !.meta_batch = clear(@)]
    /\ pc' = "workouts"
    /\ UNCHANGED <<pos, sizes, runs, hist>>
    /\ Frame

\* After the loop: "if workout_batch or meta_batch", then the summary is
\* returned.
WorkoutsTail ==
    /\ pc = "workouts_tail"
    /\ LET r == upsert_workouts(db, loc.workout_batch, loc.meta_batch)
       IN  /\ db' = r.db
           /\ Finish("returned",
                     [records_inserted |-> loc.records_inserted,
                      record_metadata_inserted |-> loc.record_metadata_inserted,
                      activity_summaries_inserted |-> loc.activity_inserted,
                      workouts_inserted |-> loc.workouts_inserted_total + r.ret[1],
                      workout_metadata_inserted |->
                          loc.workout_meta_inserted_total + r.ret[2]],
                     r.db,
                     [loc.flushed EXCEPT
                         !["workout"] = @ \o MapSeq(loc.workout_batch, WorkoutRow),
                         !["workout_metadata"] = @ \o MapSeq(loc.meta_batch, WorkoutMetaRow)],
                     ReportCompletion(loc.on_progress, loc.progress, "workouts",
                                      loc.workouts_processed))
    /\ UNCHANGED runs
    /\ Frame

\* The process is stopped at any point of the run: what is committed stays,
\* the batches in memory are lost.
Interrupt ==
    /\ pc # "idle"
    /\ Cardinality({k \in 1..Len(hist) : hist[k].outcome = "interrupted"}) < MaxInterrupts
    /\ Finish("interrupted", [stage |-> loc.stage, at |-> pc], db, loc.flushed, loc.progress)
    /\ UNCHANGED <<db, runs>>
    /\ Frame

Next ==
    \/ ImportBegin
    \/ RecordsNext
    \/ RecordsFlush
    \/ RecordsFlushMetadata
    \/ RecordsTail
    \/ RecordsTailMetadata
    \/ ActivityNext
    \/ ActivityFlush
    \/ ActivityTail
    \/ WorkoutsNext
    \/ WorkoutsFlush
    \/ WorkoutsTail
    \/ Interrupt

Spec == InitImport /\ [][Next]_vars

----------------------------------------------------------------------------
(* import_export_xml_to_sqlite, and the errors of the callback and the store *)

\* The cadence of the legacy progress calls (250 records in importer.py),
\* scaled to the documents of the model.
LegacyProgressEvery == 2

\* The legacy run ends: the finally clause closes the connection.
LegacyFinish(outcome, result, store, flushed, calls, processed) ==
    /\ pc' = "idle"
    /\ pos' = 0
    /\ sizes' = NoSizes
    /\ loc' = NoLocals
    /\ hist' = Append(hist, [function |-> "import_export_xml_to_sqlite",
                             outcome |-> outcome, result |-> result,
                             start |-> loc.start, db |-> store, flushed |-> flushed,
                             on_progress |-> loc.on_progress, progress |-> calls,
                             processed |-> [records |-> processed, activity |-> 0,
                                            workouts |-> 0],
                             con |-> Finally(outcome, loc.con)])

\* open_db, init_db and the initial assignments of the locals.
LegacyBegin ==
    /\ pc = "idle"
    /\ runs < MaxRuns
    /\ runs' = runs + 1
    /\ \E batch_size \in 1..MaxBatchSize : sizes' = [batch_size |-> batch_size]
    /\ \E on_progress \in BOOLEAN :
       loc' = [stage |-> "legacy",
               on_progress |-> on_progress,
               progress |-> <<>>,
               start |-> db,
               flushed |-> [t \in Tables |-> <<>>],
               con |-> "open",
               processed |-> 0,
               inserted_total |-> 0,
               batch |-> <<>>]
    /\ pc' = "legacy"
    /\ pos' = 0
    /\ UNCHANGED <<db, hist>>
    /\ Frame

\* "if on_progress and processed % 250 == 0: on_progress(processed)"
LegacyReportEvery(on_progress, calls, processed) ==
    IF on_progress /\ processed % LegacyProgressEvery = 0
    THEN Append(calls, [processed |-> processed])
    ELSE calls

\* One turn of "for rec, _meta in iter_records_from_export_xml(...)".
LegacyNext ==
    /\ pc = "legacy"
    /\ LET nxt == NextItem("Record", EndEvents(doc), pos)
       IN  CASE nxt.kind = "yield" ->
                  /\ loc' = [loc EXCEPT
                                !.batch = Append(@, HealthRecord(nxt.item.entity)),
                                !.processed = @ + 1,
                                !.progress = LegacyReportEvery(loc.on_progress, @,
                                                               loc.processed + 1)]
                  /\ pc' = IF BatchFull(Len(loc.batch) + 1, sizes.batch_size)
                           THEN "legacy_flush" ELSE "legacy"
                  /\ pos' = nxt.pos
                  /\ UNCHANGED <<sizes, hist>>
             [] nxt.kind = "stop" ->
                  /\ pc' = "legacy_tail"
                  /\ pos' = nxt.pos
                  /\ UNCHANGED <<loc, sizes, hist>>
             [] nxt.kind = "raise" ->
                  LegacyFinish("raised", [stage |-> "records"], db, loc.flushed,
                               loc.progress, loc.processed)
    /\ UNCHANGED <<db, runs>>
    /\ Frame

\* In the loop, the batch is full: upsert_records, batch.clear().
LegacyFlush ==
    /\ pc = "legacy_flush"
    /\ LET r == upsert_records(db, loc.batch)
       IN  /\ db' = r.db
           /\ loc' = [loc EXCEPT
                         !.inserted_total = @ + r.ret,
                         !.flushed["health_record"] = @ \o MapSeq(loc.batch, RecordRow),
                         !.batch = clear(@)]
    /\ pc' = "legacy"
    /\ UNCHANGED <<pos, sizes, runs, hist>>
    /\ Frame

\* After the loop: "if batch", the call at completion, "return inserted_total".
LegacyTail ==
    /\ pc = "legacy_tail"
    /\ LET r == upsert_records(db, loc.batch)
       IN  /\ db' = r.db
           /\ LegacyFinish("returned",
                           [inserted_total |-> loc.inserted_total + r.ret],
                           r.db,
                           [loc.flushed EXCEPT
                               !["health_record"] = @ \o MapSeq(loc.batch, RecordRow)],
                           IF loc.on_progress
                           THEN Append(loc.progress, [processed |-> loc.processed])
                           ELSE loc.progress,
                           loc.processed)
    /\ UNCHANGED runs
    /\ Frame

\* The rows the upsert call at pc is about to write.
PendingRows ==
    CASE pc \in {"records_flush", "records_tail"} -> loc.record_batch
      [] pc \in {"records_flush_metadata", "records_tail_metadata"} -> loc.record_meta_rows
      [] pc \in {"activity_flush", "activity_tail"} -> loc.activity_rows
      [] pc \in {"workouts_flush", "workouts_tail"} -> loc.workout_batch \o loc.meta_batch
      [] pc \in {"legacy_flush", "legacy_tail"} -> loc.batch
      [] OTHER -> <<>>

\* An upsert call raises (the database is locked, the disk is full): the
\* statement's rows are not committed, and closing the connection drops them.
StoreRaises ==
    /\ Len(PendingRows) > 0
    /\ IF loc.stage = "legacy"
       THEN LegacyFinish("raised", [stage |-> "store", at |-> pc], db, loc.flushed,
                         loc.progress, loc.processed)
       ELSE Finish("raised", [stage |-> "store", at |-> pc], db, loc.flushed, loc.progress)
    /\ UNCHANGED <<db, runs>>
    /\ Frame

\* The progress callback raises in a call of the loop: the entity is counted,
\* the batch it joined is not flushed.
ProgressRaisesInLoop ==
    /\ pc \in {"records", "workouts", "legacy"}
    /\ loc.on_progress
    /\ LET kind == IF pc = "workouts" THEN "Workout" ELSE "Record"
           nxt == NextItem(kind, EndEvents(doc), pos)
           processed == 1 + (CASE pc = "records" -> loc.records_processed
                               [] pc = "workouts" -> loc.workouts_processed
                               [] pc = "legacy" -> loc.processed)
           every == CASE pc = "records" -> RecordsProgressEvery
                      [] pc = "workouts" -> WorkoutsProgressEvery
                      [] pc = "legacy" -> LegacyProgressEvery
       IN  /\ nxt.kind = "yield"
           /\ processed % every = 0
           /\ CASE pc = "records" ->
                     FinishWith([loc EXCEPT !.records_processed = processed],
                                "raised", [stage |-> "on_progress", at |-> pc], db,
                                loc.flushed,
                                Append(loc.progress, ProgressCall("records", processed)))
                [] pc = "workouts" ->
                     FinishWith([loc EXCEPT !.workouts_processed = processed],
                                "raised", [stage |-> "on_progress", at |-> pc], db,
                                loc.flushed,
                                Append(loc.progress, ProgressCall("workouts", processed)))
                [] pc = "legacy" ->
                     LegacyFinish("raised", [stage |-> "on_progress", at |-> pc], db,
                                  loc.flushed,
                                  Append(loc.progress, [processed |-> processed]),
                                  processed)
    /\ UNCHANGED <<db, runs>>
    /\ Frame

\* The progress callback raises in the call at the completion of a pass,
\* after the tail flush of the pass was committed.
ProgressRaisesAtCompletion ==
    /\ pc \in {"records_tail", "records_tail_metadata", "workouts_tail", "legacy_tail"}
    /\ loc.on_progress
    /\ CASE pc = "records_tail" ->
              /\ Len(loc.record_batch) = 0 /\ Len(loc.record_meta_rows) = 0
              /\ db' = db
              /\ Finish("raised", [stage |-> "on_progress", at |-> pc], db, loc.flushed,
                        Append(loc.progress, ProgressCall("records", loc.records_processed)))
         [] pc = "records_tail_metadata" ->
              LET r == upsert_record_metadata(db, loc.record_meta_rows)
              IN  /\ db' = r.db
                  /\ Finish("raised", [stage |-> "on_progress", at |-> pc], r.db,
                            [loc.flushed EXCEPT
                                !["record_metadata"] = @ \o loc.record_meta_rows],
                            Append(loc.progress,
                                   ProgressCall("records", loc.records_processed)))
         [] pc = "workouts_tail" ->
              LET r == upsert_workouts(db, loc.workout_batch, loc.meta_batch)
              IN  /\ db' = r.db
                  /\ Finish("raised", [stage |-> "on_progress", at |-> pc], r.db,
                            [loc.flushed EXCEPT
                                !["workout"] = @ \o MapSeq(loc.workout_batch, WorkoutRow),
                                !["workout_metadata"] =
                                    @ \o MapSeq(loc.meta_batch, WorkoutMetaRow)],
                            Append(loc.progress,
                                   ProgressCall("workouts", loc.workouts_processed)))
         [] pc = "legacy_tail" ->
              LET r == upsert_records(db, loc.batch)
              IN  /\ db' = r.db
                  /\ LegacyFinish("raised", [stage |-> "on_progress", at |-> pc], r.db,
                                  [loc.flushed EXCEPT
                                      !["health_record"] =
                                          @ \o MapSeq(loc.batch, RecordRow)],
                                  Append(loc.progress, [processed |-> loc.processed]),
                                  loc.processed)
    /\ UNCHANGED runs
    /\ Frame

\* The "delete local data" button between two imports.
DeleteBetweenImports ==
    /\ pc = "idle"
    /\ DeleteLocalData

NextImports ==
    \/ ImportBegin
    \/ RecordsNext
    \/ RecordsFlush
    \/ RecordsFlushMetadata
    \/ RecordsTail
    \/ RecordsTailMetadata
    \/ ActivityNext
    \/ ActivityFlush
    \/ ActivityTail
    \/ WorkoutsNext
    \/ WorkoutsFlush
    \/ WorkoutsTail
    \/ LegacyBegin
    \/ LegacyNext
    \/ LegacyFlush
    \/ LegacyTail
    \/ StoreRaises
    \/ ProgressRaisesInLoop
    \/ ProgressRaisesAtCompletion
    \/ DeleteBetweenImports

\* The imports start on a new installation: there is no database file yet.
InitImports ==
    /\ InitImport
    /\ db = EmptyDb

SpecImports == InitImports /\ [][NextImports]_vars

----------------------------------------------------------------------------
(* Properties of the store *)

UpsertOps ==
    {"upsert_records", "upsert_record_metadata", "upsert_activity_summaries", "upsert_workouts"}

\* C2: the store never holds two health_record rows with the same
\* record_hash, two workout rows with the same workout_hash, two
\* activity_summary rows for the same day, or two metadata rows with the same
\* (hash, key, value) triple.
C2_UniqueIdentity ==
    /\ \A i, j \in 1..Len(db["health_record"]) :
          db["health_record"][i].record_hash = db["health_record"][j].record_hash => i = j
    /\ \A i, j \in 1..Len(db["workout"]) :
          db["workout"][i].workout_hash = db["workout"][j].workout_hash => i = j
    /\ \A i, j \in 1..Len(db["activity_summary"]) :
          db["activity_summary"][i].day = db["activity_summary"][j].day => i = j
    /\ \A i, j \in 1..Len(db["record_metadata"]) :
          (LET a == db["record_metadata"][i]
               b == db["record_metadata"][j]
           IN  a.record_hash = b.record_hash /\ a.key = b.key /\ a.value = b.value) => i = j
    /\ \A i, j \in 1..Len(db["workout_metadata"]) :
          (LET a == db["workout_metadata"][i]
               b == db["workout_metadata"][j]
           IN  a.workout_hash = b.workout_hash /\ a.key = b.key /\ a.value = b.value) => i = j

\* A committed upsert_records call that was handed the same record twice and
\* stored it once.
C2_Witness ==
    /\ call # NoCall
    /\ call.op = "upsert_records"
    /\ call.phase = "committed"
    /\ call.submitted = 2
    /\ Len(call.pre["health_record"]) = 0
    /\ Len(db["health_record"]) = 1

\* C4: a query made through another connection while an upsert call is
\* running sees either none or all of the rows that call inserts (for
\* upsert_workouts the workout rows together with their metadata rows).
C4_ReaderSeesWholeCalls ==
    seen.read =>
        \/ seen.view = seen.during.pre
        \/ seen.view = RunStatements(seen.during.pre, seen.during.stmts).view

\* The reader queried while upsert_workouts had inserted its workout row and
\* not yet committed the metadata rows.
C4_Witness ==
    /\ seen.read
    /\ seen.during.op = "upsert_workouts"
    /\ seen.during.phase = "exec"
    /\ seen.during.si = 2
    /\ seen.during.counts["workout"] = 1
    /\ txn # db

\* C7: each upsert call returns the number of rows it actually added: the
\* returned count equals the growth of the table's row count caused by the
\* call, ignored duplicates not counted.
C7_ReturnsRowsAdded ==
    ret.op \in UpsertOps =>
        \A t \in Tables : ret.counts[t] = Len(db[t]) - Len(ret.pre[t])

\* upsert_records was handed two rows, one of them a repeat, and returned 1.
C7_Witness ==
    /\ ret.op = "upsert_records"
    /\ ret.submitted = 2
    /\ ret.counts["health_record"] = 1
    /\ Len(db["health_record"]) = 1

----------------------------------------------------------------------------
(* Properties of the extractors and of the import *)

\* The attributes an element must carry to be accepted.
Required(kind) ==
    CASE kind = "Record" -> {"type", "startDate", "endDate"}
      [] kind = "Workout" -> {"workoutActivityType", "startDate", "endDate"}
      [] kind = "ActivitySummary" -> {"dateComponents"}

TimestampAttributes(kind) ==
    CASE kind = "Record" -> {"startDate", "endDate", "creationDate"}
      [] kind = "Workout" -> {"startDate", "endDate", "creationDate"}
      [] kind = "ActivitySummary" -> {"dateComponents"}

HasRequired(kind, elem) ==
    /\ elem.tag = kind
    /\ \A a \in Required(kind) : a \in DOMAIN elem.attrib /\ elem.attrib[a] # ""

\* All required attributes, and a date/time attribute outside the pattern.
MalformedTimestamp(kind, elem) ==
    /\ HasRequired(kind, elem)
    /\ \E a \in TimestampAttributes(kind) \cap DOMAIN elem.attrib :
          /\ elem.attrib[a] # ""
          /\ IF kind = "ActivitySummary" THEN ~MatchesDatePattern(elem.attrib[a])
             ELSE ~MatchesApplePattern(elem.attrib[a])

Count(events, Test(_)) == Cardinality({i \in 1..Len(events) : Test(events[i])})

KeyValueChildren(elem) ==
    SelectSeq(elem.children,
              LAMBDA c : c.tag = "MetadataEntry" /\ "key" \in DOMAIN c.attrib
                         /\ "value" \in DOMAIN c.attrib)

TableOf(kind) ==
    CASE kind = "Record" -> "health_record"
      [] kind = "Workout" -> "workout"
      [] kind = "ActivitySummary" -> "activity_summary"

\* C5: an element with all its required attributes and a date/time attribute
\* that does not match the pattern is skipped, the following elements are
\* still yielded, and no error reaches the caller of the extractor.
C5_MalformedTimestampSkipped ==
    xstatus # "running" =>
        /\ xstatus = "stopped"
        /\ Len(yielded) =
              Count(EndEvents(doc),
                    LAMBDA e : HasRequired(xkind, e) /\ ~MalformedTimestamp(xkind, e))

\* C9: an extractor yields exactly one entity for every element of its target
\* tag that has the required attributes, in document order, nothing for any
\* other tag, and with a Record or Workout one metadata entry per
\* MetadataEntry child that has both key and value, in child order.
C9_OneEntityPerElement ==
    xstatus # "running" =>
        LET accepted == SelectSeq(EndEvents(doc), LAMBDA e : HasRequired(xkind, e))
        IN  /\ Len(yielded) = Len(accepted)
            /\ \A j \in 1..Len(yielded) :
                  CASE xkind = "Record" ->
                         /\ yielded[j].entity.record_type = accepted[j].attrib.type
                         /\ [i \in 1..Len(yielded[j].metadata) |->
                                <<yielded[j].metadata[i].key, yielded[j].metadata[i].value>>]
                            = [i \in 1..Len(KeyValueChildren(accepted[j])) |->
                                  <<KeyValueChildren(accepted[j])[i].attrib.key,
                                    KeyValueChildren(accepted[j])[i].attrib.value>>]
                    [] xkind = "Workout" ->
                         /\ yielded[j].entity.workout_activity_type
                               = accepted[j].attrib.workoutActivityType
                         /\ [i \in 1..Len(yielded[j].metadata) |->
                                <<yielded[j].metadata[i].key, yielded[j].metadata[i].value>>]
                            = [i \in 1..Len(KeyValueChildren(accepted[j])) |->
                                  <<KeyValueChildren(accepted[j])[i].attrib.key,
                                    KeyValueChildren(accepted[j])[i].attrib.value>>]
                    [] xkind = "ActivitySummary" ->
                         date_isoformat(yielded[j].day) = accepted[j].attrib.dateComponents

Returned(k) == hist[k].outcome = "returned"

\* C1: importing the same document twice leaves every table of the store
\* after the second run with exactly the rows, ids included, it had after the
\* first, and every inserted count of the second run is zero.
C1_ReimportChangesNothing ==
    \A k \in 1..Len(hist) - 1 :
        (Returned(k) /\ Returned(k + 1)) =>
            /\ \A t \in Tables : hist[k + 1].db[t] = hist[k].db[t]
            /\ hist[k + 1].result.records_inserted = 0
            /\ hist[k + 1].result.record_metadata_inserted = 0
            /\ hist[k + 1].result.activity_summaries_inserted = 0
            /\ hist[k + 1].result.workouts_inserted = 0
            /\ hist[k + 1].result.workout_metadata_inserted = 0

\* Two completed imports of a document with a record, its metadata, a workout
\* and an activity summary, the first one into a new store.
C1_Witness ==
    /\ Len(hist) = 2
    /\ Returned(1)
    /\ Returned(2)
    /\ hist[1].start = EmptyDb
    /\ hist[1].result.records_inserted > 0
    /\ hist[1].result.record_metadata_inserted > 0
    /\ hist[1].result.workout_metadata_inserted > 0

RowKeys(rows, t) == {UniqueKey(t, rows[i]) : i \in 1..Len(rows)}

\* The rows of a table over the columns that carry the entity, in rowid order:
\* every column but the id.
EntityRows(rows) ==
    [i \in 1..Len(rows) |-> [c \in DOMAIN rows[i] \ {"id"} |-> rows[i][c]]]

\* C3: after an interruption the store holds what it held at the start of the
\* run and every batch flushed before the interruption, and nothing else;
\* importing the same document again to completion leaves every table with the
\* entity rows, in the order, that one uninterrupted import of the document
\* leaves (the rowids of the rows added by the second run are larger, the
\* rows it found stored having used up one each).
C3_InterruptedThenRerun ==
    \A k \in 1..Len(hist) :
        hist[k].outcome = "interrupted" =>
            /\ \A t \in Tables :
                  /\ SubSeq(hist[k].db[t], 1, Len(hist[k].start[t])) = hist[k].start[t]
                  /\ RowKeys(hist[k].db[t], t)
                        = RowKeys(hist[k].start[t], t) \cup RowKeys(hist[k].flushed[t], t)
            /\ (k < Len(hist) /\ Returned(k + 1)) =>
                  \A t \in Tables :
                      EntityRows(hist[k + 1].db[t])
                          = EntityRows(ImportInOneBatch(hist[k].start, doc)[t])

\* A run into a new store was interrupted after upsert_records and before
\* upsert_record_metadata, and the next run completed and stored metadata.
C3_Witness ==
    /\ Len(hist) = 2
    /\ hist[1].outcome = "interrupted"
    /\ hist[1].result.at = "records_flush_metadata"
    /\ hist[1].start = EmptyDb
    /\ Returned(2)
    /\ Len(hist[2].db["record_metadata"]) > 0
    /\ Len(hist[2].db["health_record"]) > 1

\* C6: a failure raised during one pass does not stop the other passes from
\* running to completion and flushing their entities to the store.
C6_PassesIndependent ==
    \A k \in 1..Len(hist) :
        hist[k].outcome = "raised" =>
            \A kind \in Kinds :
                (/\ \A i \in 1..Len(EndEvents(doc)) :
                       ~MalformedTimestamp(kind, EndEvents(doc)[i])
                 /\ Count(EndEvents(doc), LAMBDA e : HasRequired(kind, e)) > 0)
                    => Len(hist[k].db[TableOf(kind)]) > 0

C10_MetadataHasOwner ==
    /\ \A i \in 1..Len(db["record_metadata"]) :
          \E j \in 1..Len(db["health_record"]) :
              db["health_record"][j].record_hash = db["record_metadata"][i].record_hash
    /\ \A i \in 1..Len(db["workout_metadata"]) :
          \E j \in 1..Len(db["workout"]) :
              db["workout"][j].workout_hash = db["workout_metadata"][i].workout_hash
    /\ pc \in {"records", "records_flush", "records_flush_metadata"} =>
          \A i \in 1..Len(loc.record_meta_rows) :
              \E j \in 1..Len(loc.record_batch) :
                  store_stable_record_hash(loc.record_batch[j])
                      = loc.record_meta_rows[i].record_hash

\* An import into a new store was interrupted after it had flushed a record
\* and its metadata.
C10_Witness ==
    /\ Len(hist) > 0
    /\ hist[1].outcome = "interrupted"
    /\ hist[1].start = EmptyDb
    /\ Len(db["record_metadata"]) > 0
    /\ Len(db["workout_metadata"]) > 0

----------------------------------------------------------------------------
(* Properties of the progress reports and of the returned summary *)

\* The calls one pass makes when it processes n entities to completion.
PassReports(stage, n, every) ==
    [i \in 1..(n \div every) |-> ProgressCall(stage, i * every)]
        \o <<ProgressCall(stage, n)>>

NonDecreasing(calls) ==
    \A i, j \in 1..Len(calls) :
        (i < j /\ calls[i].stage = calls[j].stage) =>
            calls[i].processed <= calls[j].processed

RecordsFirst(calls) ==
    \A i, j \in 1..Len(calls) :
        (calls[i].stage = "records" /\ calls[j].stage = "workouts") => i < j

\* C11: with on_progress supplied, a completed import has called it with
\* "records" after every RecordsProgressEvery-th record and once more at the
\* end of the records pass, then with "workouts" after every
\* WorkoutsProgressEvery-th workout and once more at the end of the workouts
\* pass, the last count of a stage being the number of entities the extractor
\* yielded; at every moment of a run the counts of a stage never decrease and
\* every "records" call precedes every "workouts" call.
C11_ProgressReports ==
    /\ pc # "idle" => (NonDecreasing(loc.progress) /\ RecordsFirst(loc.progress))
    /\ \A k \in 1..Len(hist) :
          hist[k].on_progress =>
              /\ NonDecreasing(hist[k].progress)
              /\ RecordsFirst(hist[k].progress)
              /\ hist[k].outcome = "returned" =>
                    hist[k].progress =
                        PassReports("records", Len(Collect("Record", EndEvents(doc))),
                                    RecordsProgressEvery)
                        \o PassReports("workouts", Len(Collect("Workout", EndEvents(doc))),
                                       WorkoutsProgressEvery)

\* A completed import of RecordsProgressEvery records and one workout: the
\* callback heard of the records at the cadence and again at completion, then
\* of the workout.
C11_Witness ==
    /\ Len(hist) > 0
    /\ hist[1].outcome = "returned"
    /\ hist[1].on_progress
    /\ hist[1].progress = <<ProgressCall("records", RecordsProgressEvery),
                            ProgressCall("records", RecordsProgressEvery),
                            ProgressCall("workouts", 1)>>

----------------------------------------------------------------------------
(* The pure functions applied on their own *)

\* Text an export can carry in sourceName, unit or device.
SourceNames == {None, Some(""), Some("A"), Some("A|B")}

UnitNames == {None, Some("B|"), Some("count")}

\* HealthRecord values as a caller of the store can build them.
HashedRecords ==
    {r \in [type : {"StepCount"},
            start_at : {[h |-> 10, mi |-> 0, off |-> 60], [h |-> 9, mi |-> 0, off |-> 0]},
            end_at : {[h |-> 10, mi |-> 5, off |-> 60]},
            creation_at : {None, Some([h |-> 10, mi |-> 5, off |-> 60])},
            source_name : SourceNames,
            unit : UnitNames,
            value : {None, Some(420)},
            value_str : {None, Some("Asleep")}] :
        r.value = None \/ r.value_str = None}

HashedWorkouts ==
    [workout_activity_type : {"Run"},
     start_at : {[h |-> 10, mi |-> 0, off |-> 60], [h |-> 9, mi |-> 0, off |-> 0]},
     end_at : {[h |-> 10, mi |-> 5, off |-> 60]},
     creation_at : {None, Some([h |-> 10, mi |-> 5, off |-> 60])},
     source_name : SourceNames,
     device : UnitNames,
     duration_s : {None, Some(300)},
     total_energy_kcal : {None},
     total_distance_m : {None, Some(50)}]

InitFunctions ==
    /\ doc = <<>>
    /\ xkind = "Record"
    /\ xpos = 0
    /\ xstatus = "stopped"
    /\ yielded = <<>>
    /\ xlast = "none"
    /\ db = EmptyDb
    /\ txn = EmptyDb
    /\ call = NoCall
    /\ ret = NoReturn
    /\ seen = NotRead
    /\ ncalls = 0
    /\ pc = "idle"
    /\ pos = 0
    /\ sizes = NoSizes
    /\ loc = NoLocals
    /\ runs = 0
    /\ hist = <<>>
    /\ NoApplication

\* fn is applied to each of the arguments.
Apply(name, arguments, results) ==
    /\ fname' = name
    /\ fargs' = arguments
    /\ fresult' = results
    /\ UNCHANGED <<xvars, svars, ivars>>

\* storage/sqlite_store.py stable_record_hash on two records.
ApplyStableRecordHash ==
    /\ fname = "none"
    /\ \E a \in HashedRecords, b \in HashedRecords :
          Apply("stable_record_hash", <<a, b>>,
                <<store_stable_record_hash(a), store_stable_record_hash(b)>>)

\* stable_workout_hash on two workouts.
ApplyStableWorkoutHash ==
    /\ fname = "none"
    /\ \E a \in HashedWorkouts, b \in HashedWorkouts :
          Apply("stable_workout_hash", <<a, b>>,
                <<stable_workout_hash(a), stable_workout_hash(b)>>)

\* ingest/apple_health.py: what the legacy extractor does with one element.
iter_health_records_from_export_xml(elem) ==
    LET attrib == elem.attrib
        raw_value == Get(attrib, "value")
        parsed == to_float(raw_value)
        value == IF raw_value = None THEN None ELSE parsed
        value_str == IF raw_value = None THEN None
                     ELSE IF parsed # None THEN None
                     ELSE raw_value
    IN  IF elem.tag # "Record" THEN Continue
        ELSE IF ~Truthy(Get(attrib, "type")) \/ ~Truthy(Get(attrib, "startDate"))
                \/ ~Truthy(Get(attrib, "endDate"))
             THEN Skip
        ELSE IF BadTimestamp(attrib, "startDate") \/ BadTimestamp(attrib, "endDate")
                \/ BadTimestamp(attrib, "creationDate")
             THEN Raise
        ELSE Yield([type |-> attrib.type,
                    start_at |-> parse_apple_datetime(attrib.startDate),
                    end_at |-> parse_apple_datetime(attrib.endDate),
                    creation_at |-> OptDatetime(attrib, "creationDate"),
                    source_name |-> Get(attrib, "sourceName"),
                    unit |-> Get(attrib, "unit"),
                    value |-> value,
                    value_str |-> value_str])

\* Text an export can carry in a value attribute, None for no attribute.
ValueTexts == {None, Some("42"), Some("-3.9"), Some("inf"), Some("Asleep"), Some("")}

WithAttribute(attrib, k, opt) ==
    IF opt = None THEN [a \in DOMAIN attrib \ {k} |-> attrib[a]]
    ELSE [a \in DOMAIN attrib \cup {k} |-> IF a = k THEN opt[1] ELSE attrib[a]]

\* <Record/> elements over the value texts, and two the extractors pass over.
ValuedRecords ==
    {Element("Record", WithAttribute(RecSteps.attrib, "value", v), RecSteps.children) :
        v \in ValueTexts}
        \cup {RecNoStart, SumDay1}

\* Text an export can carry in an integer attribute of <ActivitySummary/>.
IntegerTexts ==
    {None, Some("500.7"), Some("-3.9"), Some("42"), Some("1e999"), Some("abc"), Some("")}

SummaryElements ==
    {Element("ActivitySummary",
             WithAttribute(WithAttribute([dateComponents |-> "2020-01-01"],
                                         "activeEnergyBurned", a),
                           "appleStandHours", b),
             <<>>) : a \in IntegerTexts, b \in IntegerTexts}
        \cup {SumNoDay}

\* iter_records_from_export_xml on one element.
ApplyIterRecords ==
    /\ fname = "none"
    /\ \E elem \in ValuedRecords :
          Apply("iter_records_from_export_xml", <<elem>>,
                <<iter_records_from_export_xml(elem)>>)

\* iter_health_records_from_export_xml on one element.
ApplyIterHealthRecords ==
    /\ fname = "none"
    /\ \E elem \in ValuedRecords :
          Apply("iter_health_records_from_export_xml", <<elem>>,
                <<iter_health_records_from_export_xml(elem)>>)

\* iter_activity_summaries_from_export_xml on one element.
ApplyIterActivitySummaries ==
    /\ fname = "none"
    /\ \E elem \in SummaryElements :
          Apply("iter_activity_summaries_from_export_xml", <<elem>>,
                <<iter_activity_summaries_from_export_xml(elem)>>)

\* _parse_apple_datetime on a text of the fixed pattern, then the way of the
\* datetime through the store: _dt_to_iso on writing, datetime.fromisoformat
\* on reading (iter_records, iter_workouts).
ApplyParseStoreParse ==
    /\ fname = "none"
    /\ \E dt \in Datetimes :
          LET parsed == parse_apple_datetime(AppleFormat(dt))
              stored == dt_to_iso(Some(parsed))
          IN  Apply("_parse_apple_datetime", <<AppleFormat(dt)>>,
                    <<parsed, stored[1], fromisoformat(stored[1])>>)

\* The place of an ISO text of the store under SQLite's BINARY collation. The
\* texts have one width, so they compare field by field in the order written:
\* hour, minute, the sign of the offset ("+" before "-"), the offset. A text
\* without offset is a prefix of those with one, and comes before them.
TextKey(text) ==
    LET dt == fromisoformat(text)
    IN  IF "off" \in DOMAIN dt
        THEN <<dt.h, dt.mi, IF dt.off < 0 THEN 2 ELSE 1,
               IF dt.off < 0 THEN -dt.off ELSE dt.off>>
        ELSE <<dt.h, dt.mi, 0, 0>>

TextLess(a, b) ==
    LET x == TextKey(a)
        y == TextKey(b)
    IN  \E i \in 1..4 : x[i] < y[i] /\ \A j \in 1..(i - 1) : x[j] = y[j]

TextLeq(a, b) == a = b \/ TextLess(a, b)

\* The WHERE clause of query_records_page.
Where(row, record_type, start_at, end_at) ==
    /\ Truthy(record_type) => row.type = record_type[1]
    /\ start_at # None => TextLeq(isoformat(start_at[1]), row.start_at[1])
    /\ end_at # None => TextLeq(row.start_at[1], isoformat(end_at[1]))

\* The columns of the SELECT.
Selected(row) == [c \in DOMAIN row \ {"id"} |-> row[c]]

\* ORDER BY start_at ASC or DESC on the stored text; rows of equal text come in
\* any order.
OrderedBy(rows, order) ==
    {p \in [1..Len(rows) -> 1..Len(rows)] :
        /\ \A i, j \in 1..Len(rows) : p[i] = p[j] => i = j
        /\ \A i, j \in 1..Len(rows) :
              i < j => IF order = "start_at_desc"
                       THEN TextLeq(rows[p[j]].start_at[1], rows[p[i]].start_at[1])
                       ELSE TextLeq(rows[p[i]].start_at[1], rows[p[j]].start_at[1])}

\* LIMIT and OFFSET counting the skipped rows one too many.
Page_skipping_one_more(rows, perm, limit, offset) ==
    LET last == IF offset + 1 + limit < Len(rows) THEN offset + 1 + limit ELSE Len(rows)
    IN  [i \in 1..(IF last > offset + 1 THEN last - offset - 1 ELSE 0) |->
            Selected(rows[perm[offset + 1 + i]])]

\* "LIMIT ? OFFSET ?" on the matching rows in the order perm.
Page(rows, perm, limit, offset) ==
    LET last == IF offset + limit < Len(rows) THEN offset + limit ELSE Len(rows)
    IN  [i \in 1..(IF last > offset THEN last - offset ELSE 0) |->
            Selected(rows[perm[offset + i]])]

\* The pages query_records_page can return on a health_record table.
query_records_page(table, record_type, start_at, end_at, order, limit, offset) ==
    LET rows == SelectSeq(table, LAMBDA row : Where(row, record_type, start_at, end_at))
    IN  {Page(rows, perm, limit, offset) : perm \in OrderedBy(rows, order)}

\* Records of two types whose start texts and start instants order differently:
\* 10:00 at +01:00 is 09:00 UTC, before 09:05 UTC.
QueriedRecords ==
    [type : {"StepCount", "SleepAnalysis"},
     start_at : {[h |-> 10, mi |-> 0, off |-> 60], [h |-> 9, mi |-> 5, off |-> 0],
                 [h |-> 9, mi |-> 0, off |-> 0]},
     end_at : {[h |-> 10, mi |-> 5, off |-> 60]},
     creation_at : {None},
     source_name : {None},
     unit : {None},
     value : {Some(420)},
     value_str : {None}]

MaxStored == 3

QueryArguments ==
    [record_type : {None, Some("StepCount")},
     start_at : {None, Some([h |-> 9, mi |-> 5, off |-> 0])},
     end_at : {None, Some([h |-> 10, mi |-> 0, off |-> 60])},
     order : {"start_at_asc", "start_at_desc"},
     limit : {1, 2, 500},
     offset : {0, 1}]

\* query_records_page on a store that upsert_records filled.
ApplyQueryRecordsPage ==
    /\ fname = "none"
    /\ \E records \in SeqsUpTo(QueriedRecords, MaxStored), q \in QueryArguments :
          LET con == RunStatements(EmptyDb, upsert_records_statements(records)).view
          IN  \E page \in query_records_page(con["health_record"], q.record_type,
                                              q.start_at, q.end_at, q.order, q.limit,
                                              q.offset) :
                 Apply("query_records_page", <<con["health_record"], q>>, <<page>>)

\* Cells of a "value" column: a number (in tenths), a text, or None/NaN.
Num(n) == [kind |-> "number", n |-> n]

Text(s) == [kind |-> "text", s |-> s]

Null == [kind |-> "null"]

\* pd.to_numeric(..., errors="coerce") on one cell: text is parsed, what does
\* not parse becomes NaN.
to_numeric(cell) ==
    CASE cell.kind = "number" -> Some(cell.n)
      [] cell.kind = "text" -> to_float(Some(cell.s))
      [] cell.kind = "null" -> None

\* pd.DataFrame(columns=["day", "value", "count"])
EmptyDaily == [kind |-> "frame", columns |-> <<"day", "value", "count">>, rows |-> <<>>]

\* The guards of summarize_by_day_agg that only look at the second column.
MissingColumns_start_at_only(df) == Len(df.rows) = 0 \/ "start_at" \notin df.columns

\* "if df.empty or 'start_at' not in df.columns" and "if 'value' not in
\* df.columns"; a frame without columns or without rows is empty.
MissingColumns(df) ==
    \/ Len(df.rows) = 0
    \/ df.columns = {}
    \/ "start_at" \notin df.columns
    \/ "value" \notin df.columns

RECURSIVE SumOf(_)
SumOf(values) == IF Len(values) = 0 THEN 0 ELSE Head(values) + SumOf(Tail(values))

\* The rows of one day sorted by start_at, the order of the frame kept among
\* equal timestamps (sort_values on several columns is stable).
RECURSIVE SortedByStart(_)
SortedByStart(rows) ==
    IF Len(rows) = 0 THEN <<>>
    ELSE LET i == CHOOSE i \in 1..Len(rows) :
                      /\ \A j \in 1..Len(rows) : rows[i].start_at[1].t <= rows[j].start_at[1].t
                      /\ \A j \in 1..(i - 1) : rows[j].start_at[1].t > rows[i].start_at[1].t
         IN  <<rows[i]>>
                 \o SortedByStart(SubSeq(rows, 1, i - 1) \o SubSeq(rows, i + 1, Len(rows)))

\* services/stats.py summarize_by_day_agg: the daily rollup of the rows with
\* a numeric value and a start_at. The mean is kept as sum and count.
summarize_by_day_agg(df, agg) ==
    IF MissingColumns(df) THEN EmptyDaily
    ELSE IF "value" \notin df.columns THEN [kind |-> "raise", error |-> "KeyError"]
    ELSE LET numeric == SelectSeq(df.rows,
                                  LAMBDA r : to_numeric(r.value) # None /\ r.start_at # None)
             OfDay(d) == SelectSeq(numeric, LAMBDA r : r.start_at[1].day = d)
             value_num(rows) == [i \in 1..Len(rows) |-> to_numeric(rows[i].value)[1]]
             days == SelectSeq(<<1, 2>>, LAMBDA d : Len(OfDay(d)) > 0)
             Daily(d) ==
                 [day |-> d,
                  value |-> CASE agg = "sum" -> SumOf(value_num(OfDay(d)))
                              [] agg = "mean" -> [sum |-> SumOf(value_num(OfDay(d))),
                                                  count |-> Len(OfDay(d))]
                              [] agg = "last" ->
                                    value_num(SortedByStart(OfDay(d)))[Len(OfDay(d))],
                  count |-> Len(OfDay(d))]
         IN  IF Len(numeric) = 0 THEN EmptyDaily
             ELSE IF agg \notin {"sum", "mean", "last"}
                  THEN [kind |-> "raise", error |-> "ValueError"]
             ELSE [kind |-> "frame", columns |-> <<"day", "value", "count">>,
                   rows |-> [i \in 1..Len(days) |-> Daily(days[i])]]

MaxFrameRows == 2

\* Rows over every column, before the frame keeps the columns it has.
FrameRows ==
    [type : {"StepCount"},
     start_at : {None, Some([day |-> 1, t |-> 540]), Some([day |-> 1, t |-> 600]),
                 Some([day |-> 2, t |-> 540])},
     value : {Null, Num(100), Num(255), Text("42"), Text("abc")}]

FrameColumns == {{}, {"start_at"}, {"value"}, {"type", "value"}, {"start_at", "value"}}

\* summarize_by_day_agg on a frame.
ApplySummarizeByDayAgg ==
    /\ fname = "none"
    /\ \E columns \in FrameColumns, rows \in SeqsUpTo(FrameRows, MaxFrameRows),
          agg \in {"sum", "mean", "last", "median"} :
          LET df == [columns |-> columns,
                     rows |-> [i \in 1..Len(rows) |-> [c \in columns |-> rows[i][c]]]]
          IN  Apply("summarize_by_day_agg", <<df, agg>>, <<summarize_by_day_agg(df, agg)>>)

\* SELECT COUNT(*) FROM health_record with the WHERE clause of the filter.
count_records(table, record_type, start_at, end_at) ==
    Len(SelectSeq(table, LAMBDA row : Where(row, record_type, start_at, end_at)))

CountArguments ==
    [record_type : {None, Some("StepCount")},
     start_at : {None, Some([h |-> 9, mi |-> 5, off |-> 0])},
     end_at : {None, Some([h |-> 10, mi |-> 0, off |-> 60])}]

\* count_records on a store that upsert_records filled.
ApplyCountRecords ==
    /\ fname = "none"
    /\ \E records \in SeqsUpTo(QueriedRecords, MaxStored), q \in CountArguments :
          LET con == RunStatements(EmptyDb, upsert_records_statements(records)).view
          IN  Apply("count_records", <<con["health_record"], q>>,
                    <<count_records(con["health_record"], q.record_type, q.start_at,
                                    q.end_at)>>)

\* web/explore.py render_explore_records: count_records gives the number of
\* pages, and query_records_page is called at the offset of a page. Here it is
\* called at the offset of each page in turn, with no write in between: the
\* statement and the store are the same, so rows of equal start_at text come in
\* the same order in every call.
ApplyQueryRecordsPages ==
    /\ fname = "none"
    /\ \E records \in SeqsUpTo(QueriedRecords, MaxStored), q \in CountArguments,
          order \in {"start_at_asc", "start_at_desc"}, limit \in 1..MaxStored :
          LET con == RunStatements(EmptyDb, upsert_records_statements(records)).view
              table == con["health_record"]
              total == count_records(table, q.record_type, q.start_at, q.end_at)
              pages == IF (total + limit - 1) \div limit > 1
                       THEN (total + limit - 1) \div limit ELSE 1
              rows == SelectSeq(table,
                                LAMBDA row : Where(row, q.record_type, q.start_at, q.end_at))
          IN  \E perm \in OrderedBy(rows, order) :
                 Apply("query_records_page_offsets",
                       <<table, q, order, limit>>,
                       <<[page \in 1..pages |-> Page(rows, perm, limit, (page - 1) * limit)],
                         total>>)

\* pd.to_datetime(..., utc=True): a timezone-aware datetime becomes the same
\* instant at offset zero, a naive one is taken to be UTC. The datetimes are
\* of one day, and so are the instants converted here.
to_utc(dt) ==
    IF "off" \in DOMAIN dt
    THEN [h |-> (Instant(dt) \div 60) % 24, mi |-> Instant(dt) % 60, off |-> 0]
    ELSE [h |-> dt.h, mi |-> dt.mi, off |-> 0]

\* iter_records: one HealthRecord per row, the timestamps parsed from the
\* stored text.
RecordOfRow(row) ==
    [type |-> row.type,
     start_at |-> fromisoformat(row.start_at[1]),
     end_at |-> fromisoformat(row.end_at[1]),
     creation_at |-> IF row.creation_at # None
                     THEN Some(fromisoformat(row.creation_at[1])) ELSE None,
     source_name |-> row.source_name,
     unit |-> row.unit,
     value |-> row.value,
     value_str |-> row.value_str]

\* iter_records: "ORDER BY start_at" over health_record.
iter_records(table) ==
    {[i \in 1..Len(table) |-> RecordOfRow(table[perm[i]])] :
        perm \in OrderedBy(table, "start_at_asc")}

\* to_dataframe: the three timestamp columns are converted to UTC; a "value"
\* column holding a number is a float column, in which None is NaN.
to_dataframe(records) ==
    [i \in 1..Len(records) |->
        [records[i] EXCEPT
            !.start_at = to_utc(@),
            !.end_at = to_utc(@),
            !.creation_at = IF @ = None THEN None ELSE Some(to_utc(@[1])),
            !.value = IF @ = None /\ \E j \in 1..Len(records) : records[j].value # None
                      THEN Some(NaN) ELSE @]]

\* get_record_metadata_for_hash: the (key, value) pairs of one record_hash,
\* "ORDER BY key"; the rows stored here have one key.
get_record_metadata_for_hash(con, record_hash) ==
    LET rows == SelectSeq(con["record_metadata"], LAMBDA m : m.record_hash = record_hash)
    IN  [i \in 1..Len(rows) |-> <<rows[i].key, rows[i].value>>]

\* Records as an import stores them: timestamps at +01:00 or at UTC, with a
\* numeric value or a value_str.
SampledRecords ==
    [type : {"StepCount"},
     start_at : {[h |-> 10, mi |-> 0, off |-> 60], [h |-> 9, mi |-> 0, off |-> 0]},
     end_at : {[h |-> 10, mi |-> 5, off |-> 60], [h |-> 9, mi |-> 5, off |-> 0]},
     creation_at : {None, Some([h |-> 10, mi |-> 5, off |-> 60])},
     source_name : {Some("A")},
     unit : {None},
     value : {None, Some(420)},
     value_str : {None}]

\* The Metadata tab of main() on a store holding the records and one metadata
\* entry per record: _load_records (iter_records, to_dataframe), the
\* record_hash recomputed for every row of the sample, _load_record_metadata
\* with that hash.
ApplyMetadataTab ==
    /\ fname = "none"
    /\ \E records \in SeqsUpTo(SampledRecords, MaxFrameRows) \ {<<>>} :
          LET metadata == [i \in 1..Len(records) |->
                              [record_hash |-> store_stable_record_hash(records[i]),
                               key |-> "HKTimeZone",
                               value |-> isoformat(records[i].start_at)]]
              con == upsert_record_metadata(upsert_records(EmptyDb, records).db, metadata).db
          IN  \E loaded \in iter_records(con["health_record"]) :
                 LET sample == to_dataframe(loaded)
                 IN  Apply("metadata_tab", <<con>>,
                           <<[i \in 1..Len(sample) |->
                                [record_hash |-> store_stable_record_hash(sample[i]),
                                 meta |-> get_record_metadata_for_hash(
                                              con, store_stable_record_hash(sample[i]))]],
                             loaded>>)

NextFunctions ==
    \/ ApplyMetadataTab
    \/ ApplyParseStoreParse
    \/ ApplyQueryRecordsPages
    \/ ApplyCountRecords
    \/ ApplySummarizeByDayAgg
    \/ ApplyQueryRecordsPage
    \/ ApplyStableRecordHash
    \/ ApplyStableWorkoutHash
    \/ ApplyIterRecords
    \/ ApplyIterHealthRecords
    \/ ApplyIterActivitySummaries

SpecFunctions == InitFunctions /\ [][NextFunctions]_vars

\* C12: two records that differ in at least one hashed field get different
\* record_hash values, and two workouts that differ in at least one hashed
\* field get different workout_hash values.
C12_DifferentFieldsDifferentHash ==
    (fname \in {"stable_record_hash", "stable_workout_hash"} /\ fargs[1] # fargs[2])
        => fresult[1] # fresult[2]

\* The record an application of one of the two record extractors yielded.
YieldedRecord ==
    IF fname = "iter_records_from_export_xml" THEN fresult[1].item.entity
    ELSE fresult[1].item

\* C14: for every record yielded by either record extractor, value and
\* value_str are never both populated: a value attribute that parses as a
\* number gives value that number and value_str unset, one that is present
\* but not numeric gives value unset and value_str the raw text, and an absent
\* one gives both unset.
C14_ValueOrValueStr ==
    (/\ fname \in {"iter_records_from_export_xml", "iter_health_records_from_export_xml"}
     /\ fresult[1].kind = "yield")
        => LET raw_value == Get(fargs[1].attrib, "value")
               record == YieldedRecord
           IN  /\ ~(record.value # None /\ record.value_str # None)
               /\ raw_value = None => (record.value = None /\ record.value_str = None)
               /\ (raw_value # None /\ raw_value[1] \in DOMAIN FloatLiteral) =>
                      /\ record.value = Some(FloatLiteral[raw_value[1]])
                      /\ record.value_str = None
               /\ (raw_value # None /\ raw_value[1] \notin DOMAIN FloatLiteral) =>
                      /\ record.value = None
                      /\ record.value_str = raw_value

\* The legacy extractor yielded a record for value="Asleep": value is unset and
\* value_str is the text.
C14_Witness ==
    /\ fname = "iter_health_records_from_export_xml"
    /\ Get(fargs[1].attrib, "value") = Some("Asleep")
    /\ fresult[1].kind = "yield"
    /\ fresult[1].item.value = None
    /\ fresult[1].item.value_str = Some("Asleep")

\* n is the number of tenths f with its fractional part dropped.
TruncatedTowardZero(f, n) ==
    IF f >= 0 THEN 10 * n <= f /\ f < 10 * n + 10
    ELSE 10 * n - 10 < f /\ f <= 10 * n

\* C19: every ActivitySummary integer field given as a numeric string is
\* stored as that number with its fractional part truncated toward zero, and a
\* field that is absent or not numeric is left unset.
C19_IntegerFieldsTruncated ==
    (/\ fname = "iter_activity_summaries_from_export_xml"
     /\ Truthy(Get(fargs[1].attrib, "dateComponents")))
        => /\ fresult[1].kind = "yield"
           /\ \A k \in {"activeEnergyBurned", "appleStandHours"} :
                 LET text == Get(fargs[1].attrib, k)
                     field == IF k = "activeEnergyBurned"
                              THEN fresult[1].item.active_energy_burned_kcal
                              ELSE fresult[1].item.apple_stand_hours
                 IN  IF text # None /\ text[1] \in DOMAIN FloatLiteral
                     THEN /\ field # None
                          /\ TruncatedTowardZero(FloatLiteral[text[1]], field[1])
                     ELSE field = None

\* C20: for every timestamp string in the fixed pattern, parsing returns a
\* timezone-aware datetime, and serialising it for storage and parsing the
\* stored string back yields a timezone-aware datetime denoting the identical
\* instant.
C20_StoredTimestampRoundTrip ==
    fname = "_parse_apple_datetime" =>
        LET parsed == fresult[1]
            back == fresult[3]
        IN  /\ "off" \in DOMAIN parsed
            /\ AppleFormat(parsed) = fargs[1]
            /\ "off" \in DOMAIN back
            /\ Instant(back) = Instant(parsed)

\* 23:05 at UTC-09:30 was parsed, stored as ISO text with its offset and read
\* back as 08:35 UTC of the next day.
C20_Witness ==
    /\ fname = "_parse_apple_datetime"
    /\ fargs[1] = "2020-01-01 23:05:00 -0930"
    /\ fresult[2] = "2020-01-01T23:05:00-09:30"
    /\ fresult[3].off = -570
    /\ Instant(fresult[3]) = 24 * 60 + 8 * 60 + 35

\* The instant of the start_at text of a returned row.
StartInstant(row) == Instant(fromisoformat(row.start_at[1]))

\* C18: query_records_page returns at most limit rows, all matching the
\* filter, sorted by the records' start_at instant: non-decreasing for order
\* "start_at_asc" and non-increasing for "start_at_desc", also when stored
\* timestamps carry different UTC offsets.
C18_PageSortedByInstant ==
    fname = "query_records_page" =>
        LET table == fargs[1]
            q == fargs[2]
            page == fresult[1]
        IN  /\ Len(page) <= q.limit
            /\ \A i \in 1..Len(page) :
                  /\ \E j \in 1..Len(table) : Selected(table[j]) = page[i]
                  /\ Where(page[i], q.record_type, q.start_at, q.end_at)
            /\ \A i, j \in 1..Len(page) :
                  i < j => IF q.order = "start_at_asc"
                           THEN StartInstant(page[i]) <= StartInstant(page[j])
                           ELSE StartInstant(page[i]) >= StartInstant(page[j])

\* C21: summarize_by_day_agg returns an empty result with exactly the columns
\* day, value, count, without raising, whenever its input is empty, has no
\* start_at column, has no value column, or has no row with both a numeric
\* value and a non-null start_at.
C21_EmptyDailyOnMalformedInput ==
    fname = "summarize_by_day_agg" =>
        LET df == fargs[1]
            NumericCell(cell) ==
                \/ cell.kind = "number"
                \/ cell.kind = "text" /\ cell.s \in DOMAIN FloatLiteral
        IN  (\/ Len(df.rows) = 0
             \/ "start_at" \notin df.columns
             \/ "value" \notin df.columns
             \/ ~\E i \in 1..Len(df.rows) :
                    NumericCell(df.rows[i].value) /\ df.rows[i].start_at # None)
                => /\ fresult[1].kind = "frame"
                   /\ fresult[1].columns = <<"day", "value", "count">>
                   /\ fresult[1].rows = <<>>

\* A frame with a start_at column and no value column, asked for the sum, gave
\* the empty result.
C21_Witness ==
    /\ fname = "summarize_by_day_agg"
    /\ fargs[1].columns = {"start_at"}
    /\ Len(fargs[1].rows) = 1
    /\ fargs[1].rows[1].start_at # None
    /\ fargs[2] = "sum"
    /\ fresult[1] = EmptyDaily

----------------------------------------------------------------------------
(* The import of documents that repeat an entity *)

MetaDevice == Element("MetadataEntry", [key |-> "HKDevice", value |-> "Watch"], <<>>)

\* RecSteps again, with other MetadataEntry children in another order.
RecStepsOtherMeta ==
    Element("Record", RecSteps.attrib, <<MetaDevice, MetaNoKey, MetaKeyValue>>)

\* WorkRun again, without MetadataEntry children.
WorkRunBare == Element("Workout", WorkRun.attrib, <<>>)

OverlapPool == {RecSteps, RecStepsOtherMeta, WorkRun, WorkRunBare, SumDay1, SumDay1Late}

InitOverlap ==
    /\ doc \in SeqsUpTo(OverlapPool, MaxDocLen)
    /\ xkind = "Record"
    /\ xpos = 0
    /\ xstatus = "stopped"
    /\ yielded = <<>>
    /\ xlast = "none"
    /\ db \in PriorStores
    /\ txn = EmptyDb
    /\ call = NoCall
    /\ ret = NoReturn
    /\ seen = NotRead
    /\ ncalls = 0
    /\ pc = "idle"
    /\ pos = 0
    /\ sizes = NoSizes
    /\ loc = NoLocals
    /\ runs = 0
    /\ hist = <<>>
    /\ NoApplication

\* Imports that run to their end.
NextOverlap ==
    \/ ImportBegin
    \/ RecordsNext
    \/ RecordsFlush
    \/ RecordsFlushMetadata
    \/ RecordsTail
    \/ RecordsTailMetadata
    \/ ActivityNext
    \/ ActivityFlush
    \/ ActivityTail
    \/ WorkoutsNext
    \/ WorkoutsFlush
    \/ WorkoutsTail

SpecOverlap == InitOverlap /\ [][NextOverlap]_vars

\* The rows of a table that carry the hashed attributes of an element.
RowsOf(rows, elem) ==
    {i \in 1..Len(rows) :
        /\ rows[i].start_at = dt_to_iso(Some(parse_apple_datetime(elem.attrib.startDate)))
        /\ rows[i].end_at = dt_to_iso(Some(parse_apple_datetime(elem.attrib.endDate)))
        /\ rows[i].source_name = Get(elem.attrib, "sourceName")
        /\ IF elem.tag = "Record"
           THEN /\ rows[i].type = elem.attrib.type
                /\ rows[i].unit = Get(elem.attrib, "unit")
           ELSE /\ rows[i].workout_activity_type = elem.attrib.workoutActivityType
                /\ rows[i].device = Get(elem.attrib, "device")}

MetadataTableOf(kind) == IF kind = "Record" THEN "record_metadata" ELSE "workout_metadata"

HashOf(kind, row) == IF kind = "Record" THEN row.record_hash ELSE row.workout_hash

\* C13: after a completed import every Record (Workout) element of the
\* document has exactly one row with its hashed attributes, however many
\* elements carry those attributes and whatever their MetadataEntry children
\* are, and every key/value child of every such element is stored under the
\* hash of that one row.
C13_HashIgnoresMetadata ==
    \A k \in 1..Len(hist) :
        Returned(k) =>
            \A kind \in {"Record", "Workout"} :
                \A e \in 1..Len(EndEvents(doc)) :
                    LET elem == EndEvents(doc)[e]
                        rows == hist[k].db[TableOf(kind)]
                        meta == hist[k].db[MetadataTableOf(kind)]
                    IN  HasRequired(kind, elem) =>
                            /\ Cardinality(RowsOf(rows, elem)) = 1
                            /\ \A r \in RowsOf(rows, elem) :
                                  \A c \in 1..Len(KeyValueChildren(elem)) :
                                      \E m \in 1..Len(meta) :
                                          /\ HashOf(kind, meta[m]) = HashOf(kind, rows[r])
                                          /\ meta[m].key = KeyValueChildren(elem)[c].attrib.key
                                          /\ meta[m].value = KeyValueChildren(elem)[c].attrib.value

\* A completed import into a new store of a Record, the same Record with other
\* metadata children, and a Workout: one health_record row carrying the
\* metadata of both elements.
C13_Witness ==
    /\ doc = <<RecSteps, RecStepsOtherMeta, WorkRun>>
    /\ Len(hist) > 0
    /\ Returned(1)
    /\ hist[1].start = EmptyDb
    /\ Len(hist[1].db["health_record"]) = 1
    /\ Len(hist[1].db["record_metadata"]) = 2
    /\ hist[1].result.records_inserted = 1

\* The summaries the document yields for the day of a stored row, in order.
SummariesOfDay(events, day) ==
    SelectSeq(MapSeq(Collect("ActivitySummary", events), ActivityRow),
              LAMBDA row : row.day = day)

\* C15: the activity_summary row of a day keeps every field of the summary
\* stored first for that day: the row the store held before the import if
\* there was one, else the first summary of that day in the document; a later
\* summary for the day is not merged and not counted as inserted.
C15_FirstSummaryKept ==
    \A k \in 1..Len(hist) :
        Returned(k) =>
            LET before == hist[k].start["activity_summary"]
                after == hist[k].db["activity_summary"]
            IN  /\ \A i \in 1..Len(after) :
                      IF \E j \in 1..Len(before) : before[j].day = after[i].day
                      THEN \E j \in 1..Len(before) : before[j] = after[i]
                      ELSE after[i] = SummariesOfDay(EndEvents(doc), after[i].day)[1]
                /\ hist[k].result.activity_summaries_inserted = Len(after) - Len(before)
                /\ \A i, j \in 1..Len(after) : after[i].day = after[j].day => i = j

\* A completed import into a new store of a document with two summaries of
\* the same day and different values: the first one is the stored row.
C15_Witness ==
    /\ Len(hist) > 0
    /\ Returned(1)
    /\ hist[1].start = EmptyDb
    /\ Len(doc) >= 2
    /\ doc[1] = SumDay1
    /\ doc[2] = SumDay1Late
    /\ Len(hist[1].db["activity_summary"]) = 1
    /\ hist[1].db["activity_summary"][1].active_energy_burned_kcal = Some(500)
    /\ hist[1].result.activity_summaries_inserted = 1

----------------------------------------------------------------------------
(* The element data an extractor holds *)

\* The branches of the loop body that call elem.clear(): the one skipping an
\* element without its required attributes, and the one that yielded, once the
\* generator is resumed. The branch of the other tags continues without it.
Clears(kind, elem) == Extractor(kind, elem).kind \in {"skip", "yield"}

\* Number of elements in the subtree of elem.
SubtreeSize(elem) == Len(EndEvents(<<elem>>))

\* Position, among the end events, of the end event of doc[j].
RECURSIVE EndEventOf(_)
EndEventOf(j) == IF j = 0 THEN 0 ELSE EndEventOf(j - 1) + SubtreeSize(doc[j])

\* The loop body is done with doc[j]: its end event was consumed and the
\* generator is not suspended at the yield for it.
FinishedHandling(j) ==
    \/ EndEventOf(j) < xpos
    \/ EndEventOf(j) = xpos /\ xlast # "yield"

\* Elements of the subtree of doc[j] that the tree under the root still holds
\* with their attributes: those parsed so far, until elem.clear() is called on
\* doc[j].
HeldOf(j) ==
    IF xpos <= EndEventOf(j - 1) THEN 0
    ELSE IF xpos < EndEventOf(j) THEN xpos - EndEventOf(j - 1)
    ELSE IF FinishedHandling(j) /\ Clears(xkind, doc[j]) THEN 0
    ELSE SubtreeSize(doc[j])

RECURSIVE HeldUpTo(_)
HeldUpTo(j) == IF j = 0 THEN 0 ELSE HeldUpTo(j - 1) + HeldOf(j)

HeldElements == HeldUpTo(Len(doc))

\* C16: while an extractor iterates over a document, every element it has
\* finished handling no longer retains its attributes or subtree, and the
\* element data held is bounded by one element's subtree, whatever the tags.
C16_FinishedElementsReleased ==
    xstatus = "running" =>
        /\ \A j \in 1..Len(doc) : FinishedHandling(j) => HeldOf(j) = 0
        /\ \/ HeldElements = 0
           \/ \E j \in 1..Len(doc) : HeldElements <= SubtreeSize(doc[j])

----------------------------------------------------------------------------
(* The summary the import returns *)

\* The key of the returned dict counting the inserted entities of a kind.
InsertedKey ==
    [records |-> "records_inserted", activity |-> "activity_summaries_inserted",
     workouts |-> "workouts_inserted"]

\* The keys of the returned dict that count inserted rows.
InsertedKeys ==
    {"records_inserted", "record_metadata_inserted", "activity_summaries_inserted",
     "workouts_inserted", "workout_metadata_inserted"}

\* C17: the summary the import returns reports, for each entity kind, both
\* the number of entities processed and the number inserted, with inserted
\* never greater than processed.
C17_SummaryHasProcessedAndInserted ==
    \A k \in 1..Len(hist) :
        Returned(k) =>
            \A kind \in DOMAIN InsertedKey :
                /\ InsertedKey[kind] \in DOMAIN hist[k].result
                /\ \E key \in DOMAIN hist[k].result \ InsertedKeys :
                      hist[k].result[key] = hist[k].processed[kind]
                /\ hist[k].result[InsertedKey[kind]] <= hist[k].processed[kind]

----------------------------------------------------------------------------
(* What the import passes to the store *)

\* C22: in a run of the import that completes, every entity an extractor
\* yields is passed to the store's upsert operation exactly once: the rows
\* submitted over all the flushes of a pass are the yielded entities, each once
\* and in their order, the last partial batch included.
C22_EachEntitySubmittedOnce ==
    \A k \in 1..Len(hist) :
        Returned(k) =>
            LET records == Collect("Record", EndEvents(doc))
                summaries == Collect("ActivitySummary", EndEvents(doc))
                workouts == Collect("Workout", EndEvents(doc))
                flushed == hist[k].flushed
            IN  /\ flushed["health_record"] =
                      [i \in 1..Len(records) |-> RecordRow(HealthRecord(records[i].entity))]
                /\ flushed["record_metadata"] =
                      Concat([i \in 1..Len(records) |->
                                 MapSeq(records[i].metadata, RecordMetaRow)])
                /\ flushed["activity_summary"] = MapSeq(summaries, ActivityRow)
                /\ flushed["workout"] =
                      [i \in 1..Len(workouts) |-> WorkoutRow(workouts[i].entity)]
                /\ flushed["workout_metadata"] =
                      Concat([i \in 1..Len(workouts) |->
                                 MapSeq(workouts[i].metadata, WorkoutMetaRow)])

\* A completed import of three records: with batches of at most MaxBatchSize
\* records the last of them went out in a later flush than the first.
C22_Witness ==
    /\ Len(hist) > 0
    /\ hist[1].outcome = "returned"
    /\ Len(hist[1].flushed["health_record"]) = MaxBatchSize + 1
    /\ hist[1].processed.records = MaxBatchSize + 1

----------------------------------------------------------------------------
(* The life of a stored row *)

\* Every row of the store before the step is a row of the store after it, at
\* its place and with its fields.
RowsKept == \A t \in Tables : Len(db[t]) <= Len(db'[t]) /\ SubSeq(db'[t], 1, Len(db[t])) = db[t]

\* C23: once a row is stored, no later upsert call changes any of its fields
\* or removes it: the stored rows only grow, until the whole database is
\* deleted.
C23_StoredRowsOnlyGrow == [][RowsKept \/ db' = EmptyDb]_vars

\* A second upsert_records call returned after submitting a record that was
\* already stored: nothing was inserted and the stored rows are as before.
C23_Witness ==
    /\ ncalls = 2
    /\ ret.op = "upsert_records"
    /\ ret.submitted > 0
    /\ ret.counts["health_record"] = 0
    /\ Len(db["health_record"]) > 0
    /\ \A t \in Tables : ret.pre[t] = db[t]

\* C24: in an import called with batch sizes of at least 1, the in-memory
\* batch of a kind never holds more entities than the batch size of its kind,
\* so no upsert call, which is handed that batch, receives more.
C24_BatchesBounded ==
    pc # "idle" =>
        /\ sizes.record_batch_size >= 1 /\ sizes.workout_batch_size >= 1
        /\ Len(loc.record_batch) <= sizes.record_batch_size
        /\ Len(loc.activity_rows) <= ActivityBatchSize
        /\ Len(loc.workout_batch) <= sizes.workout_batch_size

\* With record_batch_size 1, the third record of the document has filled the
\* batch again after two flushes and is about to be submitted on its own.
C24_Witness ==
    /\ pc = "records_flush"
    /\ sizes.record_batch_size = 1
    /\ Len(loc.record_batch) = 1
    /\ Len(loc.flushed["health_record"]) = 2

\* The instant of an optional datetime, None for none.
OptInstant(opt) == IF opt = None THEN None ELSE Some(Instant(opt[1]))

\* C25: record_hash depends on start_at, end_at and creation_at only through
\* the instants they denote: two records equal in type, source_name, unit and
\* value whose timestamps denote the same instants, written with whatever UTC
\* offsets, get the same record_hash.
C25_HashOfInstants ==
    (/\ fname = "stable_record_hash"
     /\ fargs[1].type = fargs[2].type
     /\ fargs[1].source_name = fargs[2].source_name
     /\ fargs[1].unit = fargs[2].unit
     /\ fargs[1].value = fargs[2].value
     /\ fargs[1].value_str = fargs[2].value_str
     /\ Instant(fargs[1].start_at) = Instant(fargs[2].start_at)
     /\ Instant(fargs[1].end_at) = Instant(fargs[2].end_at)
     /\ OptInstant(fargs[1].creation_at) = OptInstant(fargs[2].creation_at))
        => fresult[1] = fresult[2]

\* The stored rows of the requested type whose start instant lies in the closed
\* interval of the bounds.
InInterval(table, q) ==
    {i \in 1..Len(table) :
        /\ q.record_type # None => table[i].type = q.record_type[1]
        /\ q.start_at # None => Instant(q.start_at[1]) <= StartInstant(table[i])
        /\ q.end_at # None => StartInstant(table[i]) <= Instant(q.end_at[1])}

\* C26: query_records_page and count_records called with start_at and end_at
\* bounds select exactly the stored records of the requested type whose start
\* instant lies in the closed interval of the bounds, whatever UTC offset the
\* stored timestamp or the bound was written with.
C26_FilterByInstant ==
    /\ fname = "count_records" =>
          fresult[1] = Cardinality(InInterval(fargs[1], fargs[2]))
    /\ (fname = "query_records_page" /\ fargs[2].offset = 0
            /\ fargs[2].limit >= Len(fargs[1])) =>
          {fresult[1][i] : i \in 1..Len(fresult[1])}
              = {Selected(fargs[1][i]) : i \in InInterval(fargs[1], fargs[2])}

\* C27: with no write in between, for any filter, order and limit of at least
\* 1, the pages query_records_page returns at offsets 0, limit, 2*limit, ...
\* together contain every record matching the filter exactly once, and their
\* total number of rows equals count_records for the same filter.
C27_PagesPartitionMatches ==
    fname = "query_records_page_offsets" =>
        LET table == fargs[1]
            q == fargs[2]
            rows == Concat(fresult[1])
            matching == {i \in 1..Len(table) :
                            Where(table[i], q.record_type, q.start_at, q.end_at)}
        IN  /\ Len(rows) = fresult[2]
            /\ \A i, j \in 1..Len(rows) : rows[i] = rows[j] => i = j
            /\ {rows[i] : i \in 1..Len(rows)} = {Selected(table[i]) : i \in matching}

\* Three stored records match and are returned on two pages of two and one.
C27_Witness ==
    /\ fname = "query_records_page_offsets"
    /\ fargs[4] = 2
    /\ fresult[2] = 3
    /\ Len(fresult[1]) = 2
    /\ Len(fresult[1][1]) = 2
    /\ Len(fresult[1][2]) = 1

\* C28: for every record stored by an import, the record_hash that the
\* Metadata tab recomputes from the row loaded through iter_records and
\* to_dataframe equals the record_hash stored for that row, so
\* get_record_metadata_for_hash called with the recomputed hash returns that
\* record's metadata.
C28_RecomputedHashIsStored ==
    fname = "metadata_tab" =>
        LET con == fargs[1]
            sample == fresult[1]
            loaded == fresult[2]
        IN  \A i \in 1..Len(sample) :
               /\ sample[i].record_hash = store_stable_record_hash(loaded[i])
               /\ \E k \in 1..Len(con["health_record"]) :
                     con["health_record"][k].record_hash = sample[i].record_hash
               /\ sample[i].meta = <<<<"HKTimeZone", isoformat(loaded[i].start_at)>>>>

\* C29: import_export_xml_to_sqlite_all and import_export_xml_to_sqlite close
\* the database connection they opened on every exit path: normal return and
\* any error raised by an extractor, by the progress callback or by the store.
C29_ConnectionClosedOnExit ==
    /\ pc # "idle" => loc.con = "open"
    /\ \A k \in 1..Len(hist) :
          hist[k].outcome \in {"returned", "raised"} => hist[k].con = "closed"

\* A legacy import that the store made fail and an import of everything that
\* the progress callback made fail have both ended, the connections closed.
C29_Witness ==
    /\ Len(hist) = 2
    /\ hist[1].function = "import_export_xml_to_sqlite"
    /\ hist[1].outcome = "raised"
    /\ hist[1].result.stage = "store"
    /\ hist[2].function = "import_export_xml_to_sqlite_all"
    /\ hist[2].outcome = "raised"
    /\ hist[2].result.stage = "on_progress"
    /\ hist[1].con = "closed"
    /\ hist[2].con = "closed"

\* The run ended by returning or by an error of its extractor, not by an
\* error of the callback or of the store.
EndedByDocument(k) ==
    \/ hist[k].outcome = "returned"
    \/ hist[k].outcome = "raised" /\ hist[k].result.stage \in {"records", "activity", "workouts"}

\* C30: for the same document and the same initial store, the legacy
\* import_export_xml_to_sqlite and import_export_xml_to_sqlite_all leave
\* identical health_record contents, and the legacy function's return value
\* equals the "records_inserted" count of the full import, for any batch
\* sizes of at least 1.
C30_LegacyEqualsFull ==
    \A j, k \in 1..Len(hist) :
        (/\ hist[j].function = "import_export_xml_to_sqlite"
         /\ hist[k].function = "import_export_xml_to_sqlite_all"
         /\ hist[j].start = hist[k].start
         /\ EndedByDocument(j)
         /\ EndedByDocument(k))
        => /\ hist[j].db["health_record"] = hist[k].db["health_record"]
           /\ hist[j].outcome = "returned"
           /\ hist[k].outcome = "returned"
           /\ hist[j].result.inserted_total = hist[k].result.records_inserted

====
